---------------------------- MODULE Spec2Model ----------------------------
(***************************************************************************)
(* Block size descriptor construction of the ASTC encoder:                 *)
(*   Source/astcenc_block_sizes.cpp      block modes, decimation tables    *)
(*   Source/astcenc_partition_tables.cpp partition hash, tables and dedup  *)
(*                                                                         *)
(* C arrays are modelled as functions whose domain is the set of indices   *)
(* written so far: an index outside the domain is an unwritten cell.       *)
(* float values are modelled as fractions <<numerator, denominator>>.      *)
(* uint32_t values are modelled as two 16 bit limbs [hi, lo].              *)
(***************************************************************************)
EXTENDS Integers, Sequences, FiniteSets, TLC

VARIABLES
    pc,         \* position of the running operation
    arg,        \* arguments of the running operation
    bsd,        \* the block_size_descriptor being built
    loc,        \* locals of the running block-size / partition function
    dt,         \* the decimation_table being initialised
    dtl,        \* locals of initialize_decimation_table_2d / _3d
    mode_out,   \* out-parameters and return value of the block mode decoder
    heap,       \* aligned_malloc'ed decimation tables, by address (1, 2, ...)
    prev        \* the descriptors earlier calls of init filled

vars == <<pc, arg, bsd, loc, dt, dtl, mode_out, heap, prev>>

----------------------------------------------------------------------------
(* Program constants (astcenc_internal.h, as given in the specification)   *)

MAX_TEXELS_PER_BLOCK == 216
MAX_WEIGHTS_PER_BLOCK == 64
MAX_KMEANS_TEXELS == 64
MIN_WEIGHT_BITS_PER_BLOCK == 24
MAX_WEIGHT_BITS_PER_BLOCK == 96
MAX_WEIGHT_MODES == 2048
MAX_DECIMATION_MODES == 87
PARTITION_COUNT == 1024
TEXEL_WEIGHT_SUM == 16

\* Marker for "no value" in a variable that a specification does not use.
None == -1000

----------------------------------------------------------------------------
(* Integer helpers: C operators on non-negative int values                 *)

Pow2(k) == 2 ^ k

Shr(a, k) == a \div Pow2(k)

Shl(a, k) == a * Pow2(k)

Max(a, b) == IF a >= b THEN a ELSE b

RECURSIVE BitAnd(_, _)
BitAnd(a, b) ==
    IF a = 0 \/ b = 0 THEN 0
    ELSE ((a % 2) * (b % 2)) + 2 * BitAnd(a \div 2, b \div 2)

RECURSIVE BitOr(_, _)
BitOr(a, b) ==
    IF a = 0 THEN b
    ELSE IF b = 0 THEN a
    ELSE Max(a % 2, b % 2) + 2 * BitOr(a \div 2, b \div 2)

RECURSIVE BitXor(_, _)
BitXor(a, b) ==
    IF a = 0 THEN b
    ELSE IF b = 0 THEN a
    ELSE ((a + b) % 2) + 2 * BitXor(a \div 2, b \div 2)

\* a[k] = v on a C array
ArrSet(a, k, v) == IF k \in DOMAIN a THEN [a EXCEPT ![k] = v] ELSE a @@ (k :> v)

EmptyArr == [j \in {} |-> 0]

----------------------------------------------------------------------------
(* get_ise_sequence_bitcount: bits used by `items` values at quant level   *)
(* `quant` (0..11: QUANT_2, 3, 4, 5, 6, 8, 10, 12, 16, 20, 24, 32).        *)

get_ise_sequence_bitcount(items, quant) ==
    CASE quant = 0  -> items
      [] quant = 1  -> (8 * items + 4) \div 5
      [] quant = 2  -> 2 * items
      [] quant = 3  -> (7 * items + 2) \div 3
      [] quant = 4  -> (13 * items + 4) \div 5
      [] quant = 5  -> 3 * items
      [] quant = 6  -> (10 * items + 2) \div 3
      [] quant = 7  -> (18 * items + 4) \div 5
      [] quant = 8  -> 4 * items
      [] quant = 9  -> (13 * items + 2) \div 3
      [] quant = 10 -> (23 * items + 4) \div 5
      [] quant = 11 -> 5 * items
      [] OTHER      -> 100000

----------------------------------------------------------------------------
(* Block mode decoders                                                     *)

\* DecodeResult with the H bit left out of the quant mode.
DecodeResult_NoH(x_weights, y_weights, z_weights, D, H, base_quant_mode) ==
    LET weight_count == x_weights * y_weights * z_weights * (D + 1)
        quant_mode   == base_quant_mode - 2
        weight_bits  == get_ise_sequence_bitcount(weight_count, quant_mode)
    IN  [ valid |-> /\ weight_count <= MAX_WEIGHTS_PER_BLOCK
                    /\ weight_bits >= MIN_WEIGHT_BITS_PER_BLOCK
                    /\ weight_bits <= MAX_WEIGHT_BITS_PER_BLOCK,
          x_weights |-> x_weights,
          y_weights |-> y_weights,
          z_weights |-> z_weights,
          is_dual_plane |-> (D # 0),
          quant_mode |-> quant_mode ]

\* The tail shared by both decoders: weight count, quant mode, ISE envelope.
DecodeResult(x_weights, y_weights, z_weights, D, H, base_quant_mode) ==
    LET weight_count == x_weights * y_weights * z_weights * (D + 1)
        quant_mode   == (base_quant_mode - 2) + 6 * H
        weight_bits  == get_ise_sequence_bitcount(weight_count, quant_mode)
    IN  [ valid |-> /\ weight_count <= MAX_WEIGHTS_PER_BLOCK
                    /\ weight_bits >= MIN_WEIGHT_BITS_PER_BLOCK
                    /\ weight_bits <= MAX_WEIGHT_BITS_PER_BLOCK,
          x_weights |-> x_weights,
          y_weights |-> y_weights,
          z_weights |-> z_weights,
          is_dual_plane |-> (D # 0),
          quant_mode |-> quant_mode ]

\* An early `return false`: the weights are as set so far, is_dual_plane and
\* quant_mode are not written.
DecodeFail(x_weights, y_weights, z_weights) ==
    [ valid |-> FALSE, x_weights |-> x_weights, y_weights |-> y_weights,
      z_weights |-> z_weights, is_dual_plane |-> FALSE, quant_mode |-> None ]

decode_block_mode_2d(block_mode) ==
    LET bq0 == Shr(block_mode, 4) % 2
        H   == Shr(block_mode, 9) % 2
        D   == Shr(block_mode, 10) % 2
        A   == BitAnd(Shr(block_mode, 5), 3)
    IN  IF BitAnd(block_mode, 3) # 0
        THEN LET bq == BitOr(bq0, Shl(BitAnd(block_mode, 3), 1))
                 B  == BitAnd(Shr(block_mode, 7), 3)
                 sw == BitAnd(Shr(block_mode, 2), 3)
                 B1 == BitAnd(B, 1)
                 xy == CASE sw = 0 -> <<B + 4, A + 2>>
                         [] sw = 1 -> <<B + 8, A + 2>>
                         [] sw = 2 -> <<A + 2, B + 8>>
                         [] sw = 3 -> IF BitAnd(block_mode, 256) # 0
                                      THEN <<B1 + 2, A + 2>>
                                      ELSE <<A + 2, B1 + 6>>
             IN  DecodeResult(xy[1], xy[2], 1, D, H, bq)
        ELSE LET bq == BitOr(bq0, Shl(BitAnd(Shr(block_mode, 2), 3), 1))
                 B  == BitAnd(Shr(block_mode, 9), 3)
                 sw == BitAnd(Shr(block_mode, 7), 3)
                 s2 == BitAnd(Shr(block_mode, 5), 3)
             IN  IF BitAnd(Shr(block_mode, 2), 3) = 0
                 THEN DecodeFail(0, 0, 1)
                 ELSE CASE sw = 0 -> DecodeResult(12, A + 2, 1, D, H, bq)
                        [] sw = 1 -> DecodeResult(A + 2, 12, 1, D, H, bq)
                        [] sw = 2 -> DecodeResult(A + 6, B + 6, 1, 0, 0, bq)
                        [] sw = 3 ->
                             CASE s2 = 0 -> DecodeResult(6, 10, 1, D, H, bq)
                               [] s2 = 1 -> DecodeResult(10, 6, 1, D, H, bq)
                               [] OTHER  -> DecodeFail(0, 0, 1)

decode_block_mode_3d(block_mode) ==
    LET bq0 == Shr(block_mode, 4) % 2
        H   == Shr(block_mode, 9) % 2
        D   == Shr(block_mode, 10) % 2
        A   == BitAnd(Shr(block_mode, 5), 3)
    IN  IF BitAnd(block_mode, 3) # 0
        THEN LET bq == BitOr(bq0, Shl(BitAnd(block_mode, 3), 1))
                 B  == BitAnd(Shr(block_mode, 7), 3)
                 C  == BitAnd(Shr(block_mode, 2), 3)
             IN  DecodeResult(A + 2, B + 2, C + 2, D, H, bq)
        ELSE LET bq == BitOr(bq0, Shl(BitAnd(Shr(block_mode, 2), 3), 1))
                 B  == BitAnd(Shr(block_mode, 9), 3)
                 sw == BitAnd(Shr(block_mode, 7), 3)
                 s2 == BitAnd(Shr(block_mode, 5), 3)
                 D2 == IF sw # 3 THEN 0 ELSE D
                 H2 == IF sw # 3 THEN 0 ELSE H
             IN  IF BitAnd(Shr(block_mode, 2), 3) = 0
                 THEN DecodeFail(0, 0, 0)
                 ELSE CASE sw = 0 -> DecodeResult(6, B + 2, A + 2, D2, H2, bq)
                        [] sw = 1 -> DecodeResult(A + 2, 6, B + 2, D2, H2, bq)
                        [] sw = 2 -> DecodeResult(A + 2, B + 2, 6, D2, H2, bq)
                        [] sw = 3 ->
                             CASE s2 = 0 -> DecodeResult(6, 2, 2, D2, H2, bq)
                               [] s2 = 1 -> DecodeResult(2, 6, 2, D2, H2, bq)
                               [] s2 = 2 -> DecodeResult(2, 2, 6, D2, H2, bq)
                               [] OTHER  -> DecodeFail(2, 2, 2)

----------------------------------------------------------------------------
(* Specification SpecDecode: the decoders applied to every 11 bit mode     *)

IdleBsd == None
IdleLoc == None
IdleDt == None
IdleDtl == None
IdleHeap == << >>

InitDecode ==
    /\ pc = "decode"
    /\ arg \in [block_mode : 0 .. MAX_WEIGHT_MODES - 1, dims : {2, 3}]
    /\ bsd = IdleBsd
    /\ loc = IdleLoc
    /\ dt = IdleDt
    /\ dtl = IdleDtl
    /\ heap = IdleHeap
    /\ mode_out = None
    /\ prev = {}

Decode2D ==
    /\ pc = "decode"
    /\ arg.dims = 2
    /\ mode_out' = decode_block_mode_2d(arg.block_mode)
    /\ pc' = "decoded"
    /\ UNCHANGED <<prev, arg, bsd, loc, dt, dtl, heap>>

Decode3D ==
    /\ pc = "decode"
    /\ arg.dims = 3
    /\ mode_out' = decode_block_mode_3d(arg.block_mode)
    /\ pc' = "decoded"
    /\ UNCHANGED <<prev, arg, bsd, loc, dt, dtl, heap>>

NextDecode == Decode2D \/ Decode3D

SpecDecode == InitDecode /\ [][NextDecode]_vars

Decoded2D(m) == pc = "decoded" /\ arg.dims = 2 /\ arg.block_mode = m

DecodedAs(wx, wy, dual, quant) ==
    /\ mode_out.x_weights = wx
    /\ mode_out.y_weights = wy
    /\ mode_out.is_dual_plane = dual
    /\ mode_out.quant_mode = quant

\* C7 as stated: mode 0x0042 (66) decodes to wx=6, wy=2, single plane, quant
\* mode 2, and mode 0x0253 (595) decodes to wx=5, wy=6, single plane, quant
\* mode 5.
C7_Original ==
    /\ Decoded2D(66) => DecodedAs(6, 2, FALSE, 2)
    /\ Decoded2D(595) => DecodedAs(5, 6, FALSE, 5)

\* C7 amended: the 2D decoder accepts both modes; mode 0x0042 (66) decodes to
\* wx=4, wy=4, single plane, quant mode 2, and mode 0x0253 (595) decodes to
\* wx=4, wy=4, single plane, quant mode 11.
C7_Decode ==
    /\ Decoded2D(66) => mode_out.valid /\ DecodedAs(4, 4, FALSE, 2)
    /\ Decoded2D(595) => mode_out.valid /\ DecodedAs(4, 4, FALSE, 11)

\* The decoder has run on mode 0x0253.
C7_Witness == Decoded2D(595) /\ mode_out.valid

----------------------------------------------------------------------------
(* Block size descriptor assembly (construct_block_size_descriptor_2d/3d)  *)

\* Bounds of the explored inputs.
MaxBlock2D == 6          \* 2D blocks have x_texels, y_texels in 4 .. MaxBlock2D
MaxBlock3D == 3          \* 3D blocks have x/y/z_texels in 2 .. MaxBlock3D
PercentileLevels == 3    \* percentiles are 0 .. PercentileLevels-1, cutoffs one less

MAX_DMI_2D == 12 * 16 + 12
MAX_DMI_3D == 6 * 64 + 6 * 8 + 6

NullPtr == 0

\* Entry i of the table get_2d_percentile_table returns for a block size:
\* the levels spread over the mode ids.
get_2d_percentile_table(x_texels, y_texels, i) ==
    (i + (i \div 8) * (x_texels + y_texels)) % PercentileLevels

\* The scalar fields initialize_decimation_table_2d/3d leave in *dt.  The
\* heap keeps these; the arrays of the table are built under SpecDT.
DtFields(x_texels, y_texels, z_texels, x_weights, y_weights, z_weights) ==
    [ texel_count  |-> x_texels * y_texels * z_texels,
      weight_count |-> x_weights * y_weights * z_weights,
      weight_x     |-> x_weights,
      weight_y     |-> y_weights,
      weight_z     |-> z_weights ]

\* aligned_malloc: the next unused address.
aligned_malloc(h) == Len(h) + 1

\* The loop that keeps the first level inside the envelope.
RECURSIVE MaxPrecLoop_First(_, _, _)
MaxPrecLoop_First(items, i, maxprec) ==
    IF i >= 12 THEN maxprec
    ELSE LET bits == get_ise_sequence_bitcount(items, i)
         IN  MaxPrecLoop_First(items, i + 1,
                 IF /\ bits >= MIN_WEIGHT_BITS_PER_BLOCK
                    /\ bits <= MAX_WEIGHT_BITS_PER_BLOCK
                    /\ maxprec = -1
                 THEN i ELSE maxprec)

\* for (i = from; i < 12; i++) if (bits in envelope) maxprec = i;
RECURSIVE MaxPrecLoop(_, _, _)
MaxPrecLoop(items, i, maxprec) ==
    IF i >= 12 THEN maxprec
    ELSE LET bits == get_ise_sequence_bitcount(items, i)
         IN  MaxPrecLoop(items, i + 1,
                 IF bits >= MIN_WEIGHT_BITS_PER_BLOCK /\ bits <= MAX_WEIGHT_BITS_PER_BLOCK
                 THEN i ELSE maxprec)

\* The tail loop: decimation modes and tables from `from` up to
\* MAX_DECIMATION_MODES are reset.
FillDecimationTail(b, from) ==
    [ b EXCEPT
        !.decimation_modes =
            [k \in 0 .. MAX_DECIMATION_MODES - 1 |->
                IF k < from THEN b.decimation_modes[k]
                ELSE [ maxprec_1plane |-> -1, maxprec_2planes |-> -1,
                       percentile_hit |-> FALSE, percentile_always |-> FALSE ]],
        !.decimation_tables =
            [k \in 0 .. MAX_DECIMATION_MODES - 1 |->
                IF k < from THEN b.decimation_tables[k] ELSE NullPtr] ]

\* The stand-in for astc::rand_init / astc::rand: a 16 bit linear
\* congruential generator of full period.
rand_init == 1

rand(rng_state) == (rng_state * 75 + 74) % 65537

\* while (arr_elements_set < MAX_KMEANS_TEXELS) { draw; keep if unseen }
RECURSIVE KmeansDrawLoop(_, _, _, _)
KmeansDrawLoop(texel_count, rng_state, seen, kmeans_texels) ==
    LET arr_elements_set == Cardinality(DOMAIN kmeans_texels)
        next  == rand(rng_state)
        texel == next % texel_count
    IN  IF arr_elements_set >= MAX_KMEANS_TEXELS THEN kmeans_texels
        ELSE IF texel \notin seen
             THEN KmeansDrawLoop(texel_count, next, seen \cup {texel},
                                 ArrSet(kmeans_texels, arr_elements_set, texel))
             ELSE KmeansDrawLoop(texel_count, next, seen, kmeans_texels)

\* No texels chosen.
assign_kmeans_texels_Skip(b) == b

assign_kmeans_texels(b) ==
    IF b.texel_count <= MAX_KMEANS_TEXELS
    THEN [ b EXCEPT !.kmeans_texels = [i \in 0 .. b.texel_count - 1 |-> i],
                    !.kmeans_texel_count = b.texel_count ]
    ELSE [ b EXCEPT !.kmeans_texels =
                        KmeansDrawLoop(b.texel_count, rand_init, {}, EmptyArr),
                    !.kmeans_texel_count = MAX_KMEANS_TEXELS ]

\* A block_size_descriptor before init: nothing written.
NewBsd ==
    [ xdim |-> None, ydim |-> None, zdim |-> None, texel_count |-> None,
      block_mode_count |-> None, block_modes |-> EmptyArr,
      block_mode_packed_index |-> EmptyArr,
      decimation_mode_count |-> None, decimation_modes |-> EmptyArr,
      decimation_tables |-> EmptyArr,
      kmeans_texel_count |-> None, kmeans_texels |-> EmptyArr,
      partitions |-> EmptyArr ]

\* Every small block size, and the largest footprints of the format.
Blocks2D ==
    { <<x, y, 1>> : x \in 4 .. MaxBlock2D, y \in 4 .. MaxBlock2D }
    \cup { <<8, 8, 1>>, <<10, 5, 1>>, <<12, 12, 1>> }

Blocks3D ==
    { <<x, y, z>> : x \in 2 .. MaxBlock3D, y \in 2 .. MaxBlock3D, z \in 2 .. MaxBlock3D }
    \cup { <<4, 4, 4>>, <<6, 5, 5>>, <<6, 6, 6>> }

InitArgs ==
    { [ x_texels |-> b[1], y_texels |-> b[2], z_texels |-> b[3],
        can_omit_modes |-> o, mode_cutoff |-> c ] :
        b \in Blocks2D, o \in BOOLEAN, c \in 0 .. PercentileLevels - 2 }
    \cup
    { [ x_texels |-> b[1], y_texels |-> b[2], z_texels |-> b[3],
        can_omit_modes |-> FALSE, mode_cutoff |-> 0 ] :
        b \in Blocks3D }

InitBsd ==
    /\ pc = "init"
    /\ arg \in InitArgs
    /\ bsd = NewBsd
    /\ loc = IdleLoc
    /\ dt = IdleDt
    /\ dtl = IdleDtl
    /\ heap = << >>
    /\ mode_out = None
    /\ prev = {}

\* construct_block_size_descriptor_2d up to the mode loop
Construct2DBegin ==
    /\ pc = "init"
    /\ ~(arg.z_texels > 1)
    /\ bsd' = [ bsd EXCEPT !.xdim = arg.x_texels, !.ydim = arg.y_texels,
                           !.zdim = 1,
                           !.texel_count = arg.x_texels * arg.y_texels,
                           !.decimation_mode_count = 0 ]
    /\ loc' = [ i |-> 0, packed_idx |-> 0,
                decimation_mode_index |-> [k \in 0 .. MAX_DMI_2D - 1 |-> -1] ]
    /\ pc' = "modes_2d"
    /\ UNCHANGED <<prev, arg, dt, dtl, mode_out, heap>>

\* construct_dt_entry_2d leaving maxprec_2planes as found in memory when two
\* planes are not tried.
construct_dt_entry_2d_Stale(x_texels, y_texels, x_weights, y_weights, b, h) ==
    LET dm_index     == b.decimation_mode_count
        weight_count == x_weights * y_weights
        try_2planes  == (2 * weight_count) <= MAX_WEIGHTS_PER_BLOCK
        p            == aligned_malloc(h)
    IN  [ bsd |-> [ b EXCEPT
                      !.decimation_modes[dm_index] =
                          [ maxprec_1plane |-> MaxPrecLoop(weight_count, 0, -1),
                            maxprec_2planes |->
                                IF try_2planes
                                THEN MaxPrecLoop(2 * weight_count, 0, -1)
                                ELSE @.maxprec_2planes,
                            percentile_hit |-> FALSE,
                            percentile_always |-> FALSE ],
                      !.decimation_tables = ArrSet(@, dm_index, p),
                      !.decimation_mode_count = @ + 1 ],
          heap |-> Append(h, [ table |-> DtFields(x_texels, y_texels, 1,
                                                  x_weights, y_weights, 1),
                               frees |-> 0 ]) ]

\* construct_dt_entry_2d: the descriptor and heap after the call; the
\* returned index is the old decimation_mode_count.
construct_dt_entry_2d(x_texels, y_texels, x_weights, y_weights, b, h) ==
    LET dm_index     == b.decimation_mode_count
        weight_count == x_weights * y_weights
        try_2planes  == (2 * weight_count) <= MAX_WEIGHTS_PER_BLOCK
        p            == aligned_malloc(h)
        maxprec_1plane  == MaxPrecLoop(weight_count, 0, -1)
        maxprec_2planes == IF try_2planes
                           THEN MaxPrecLoop(2 * weight_count, 0, -1) ELSE -1
    IN  [ bsd |-> [ b EXCEPT
                      !.decimation_modes = ArrSet(@, dm_index,
                          [ maxprec_1plane |-> maxprec_1plane,
                            maxprec_2planes |-> maxprec_2planes,
                            percentile_hit |-> FALSE,
                            percentile_always |-> FALSE ]),
                      !.decimation_tables = ArrSet(@, dm_index, p),
                      !.decimation_mode_count = @ + 1 ],
          heap |-> Append(h, [ table |-> DtFields(x_texels, y_texels, 1,
                                                  x_weights, y_weights, 1),
                               frees |-> 0 ]) ]

\* Index of a weight grid in the 2D remap table with the 3D row stride.
DmiKey2D_Stride8(x_weights, y_weights) == y_weights * 8 + x_weights

\* Index of a weight grid in the 2D remap table: [Y * 16 + X]
DmiKey2D(x_weights, y_weights) == y_weights * 16 + x_weights

\* Index of a weight grid in the 3D remap table: [Z * 64 + Y * 8 + X]
DmiKey3D(x_weights, y_weights, z_weights) ==
    z_weights * 64 + y_weights * 8 + x_weights

\* The heuristic's selection with a strict comparison.
Selected_Strict(percentile, mode_cutoff, can_omit_modes) ==
    (percentile < mode_cutoff) \/ ~can_omit_modes

\* bool selected = (percentile <= mode_cutoff) || !can_omit_modes;
Selected(percentile, mode_cutoff, can_omit_modes) ==
    (percentile <= mode_cutoff) \/ ~can_omit_modes

\* The packed record written one slot late.
StoreBlockMode_Late(b, packed_idx, i, decimation_mode, d, hit, always) ==
    [ b EXCEPT
        !.block_modes = ArrSet(@, packed_idx,
            [ decimation_mode |-> decimation_mode,
              quant_mode |-> d.quant_mode,
              is_dual_plane |-> d.is_dual_plane,
              mode_index |-> i,
              percentile_hit |-> hit,
              percentile_always |-> always ]),
        !.block_mode_packed_index = ArrSet(@, i, packed_idx + 1) ]

\* bsd.block_modes[packed_idx] = {...}; bsd.block_mode_packed_index[i] = packed_idx;
StoreBlockMode(b, packed_idx, i, decimation_mode, d, hit, always) ==
    [ b EXCEPT
        !.block_modes = ArrSet(@, packed_idx,
            [ decimation_mode |-> decimation_mode,
              quant_mode |-> d.quant_mode,
              is_dual_plane |-> d.is_dual_plane,
              mode_index |-> i,
              percentile_hit |-> hit,
              percentile_always |-> always ]),
        !.block_mode_packed_index = ArrSet(@, i, packed_idx) ]

\* One iteration of the mode loop of construct_block_size_descriptor_2d
Mode2D ==
    /\ pc = "modes_2d"
    /\ loc.i < MAX_WEIGHT_MODES
    /\ LET i          == loc.i
           d          == decode_block_mode_2d(i)
           percentile == get_2d_percentile_table(arg.x_texels, arg.y_texels, i)
           selected   == Selected(percentile, arg.mode_cutoff, arg.can_omit_modes)
           key        == DmiKey2D(d.x_weights, d.y_weights)
       IN  IF ~d.valid \/ ~selected \/ d.x_weights > arg.x_texels
                \/ d.y_weights > arg.y_texels
           THEN /\ bsd' = [ bsd EXCEPT !.block_mode_packed_index = ArrSet(@, i, -1) ]
                /\ loc' = [ loc EXCEPT !.i = i + 1 ]
                /\ heap' = heap
           ELSE LET fresh == loc.decimation_mode_index[key] = -1
                    made  == construct_dt_entry_2d(arg.x_texels, arg.y_texels,
                                 d.x_weights, d.y_weights, bsd, heap)
                    b1    == IF fresh THEN made.bsd ELSE bsd
                    decimation_mode ==
                        IF fresh THEN bsd.decimation_mode_count
                        ELSE loc.decimation_mode_index[key]
                    always == percentile = 0
                    hit    == percentile <= arg.mode_cutoff
                    dm     == b1.decimation_modes[decimation_mode]
                    b2    == [ b1 EXCEPT
                                 !.decimation_modes[decimation_mode] =
                                     [ dm EXCEPT
                                         !.percentile_always = @ \/ always,
                                         !.percentile_hit = @ \/ always \/ hit ] ]
                IN  /\ bsd' = StoreBlockMode(b2, loc.packed_idx, i, decimation_mode,
                                             d, always \/ hit, always)
                    /\ loc' = [ loc EXCEPT
                         !.i = i + 1,
                         !.packed_idx = @ + 1,
                         !.decimation_mode_index[key] = decimation_mode ]
                    /\ heap' = IF fresh THEN made.heap ELSE heap
    /\ UNCHANGED <<prev, pc, arg, dt, dtl, mode_out>>

\* construct_block_size_descriptor_2d after the mode loop
Finish2D ==
    /\ pc = "modes_2d"
    /\ ~(loc.i < MAX_WEIGHT_MODES)
    /\ bsd' = assign_kmeans_texels(
                 FillDecimationTail(
                     [ bsd EXCEPT !.block_mode_count = loc.packed_idx ],
                     bsd.decimation_mode_count))
    /\ pc' = "constructed"
    /\ UNCHANGED <<prev, arg, loc, dt, dtl, mode_out, heap>>

\* construct_block_size_descriptor_3d up to the grid loops
Construct3DBegin ==
    /\ pc = "init"
    /\ arg.z_texels > 1
    /\ bsd' = [ bsd EXCEPT !.xdim = arg.x_texels, !.ydim = arg.y_texels,
                           !.zdim = arg.z_texels,
                           !.texel_count = arg.x_texels * arg.y_texels * arg.z_texels ]
    /\ loc' = [ x_weights |-> 2, y_weights |-> 2, z_weights |-> 2,
                decimation_mode_count |-> 0,
                decimation_mode_index |-> [k \in 0 .. MAX_DMI_3D - 1 |-> -1] ]
    /\ pc' = "grids_3d"
    /\ UNCHANGED <<prev, arg, dt, dtl, mode_out, heap>>

\* The three nested for loops over the weight grid, advanced by one body.
NextGrid3D(l) ==
    IF l.z_weights + 1 <= arg.z_texels
    THEN [ l EXCEPT !.z_weights = @ + 1 ]
    ELSE IF l.y_weights + 1 <= arg.y_texels
         THEN [ l EXCEPT !.y_weights = @ + 1, !.z_weights = 2 ]
         ELSE [ l EXCEPT !.x_weights = @ + 1, !.y_weights = 2, !.z_weights = 2 ]

\* One body of the grid loops of construct_block_size_descriptor_3d
Grid3D ==
    /\ pc = "grids_3d"
    /\ loc.x_weights <= arg.x_texels
    /\ LET weight_count == loc.x_weights * loc.y_weights * loc.z_weights
           n   == loc.decimation_mode_count
           p   == aligned_malloc(heap)
           key == DmiKey3D(loc.x_weights, loc.y_weights, loc.z_weights)
           maxprec_1plane  == MaxPrecLoop(weight_count, 0, -1)
           maxprec_2planes ==
               IF (2 * weight_count) > MAX_WEIGHTS_PER_BLOCK THEN -1
               ELSE MaxPrecLoop(2 * weight_count, 0, -1)
       IN  IF weight_count > MAX_WEIGHTS_PER_BLOCK
           THEN /\ loc' = NextGrid3D(loc)
                /\ UNCHANGED <<bsd, heap>>
           ELSE /\ heap' = Append(heap,
                      [ table |-> DtFields(arg.x_texels, arg.y_texels, arg.z_texels,
                                      loc.x_weights, loc.y_weights, loc.z_weights),
                        frees |-> 0 ])
                /\ bsd' = [ bsd EXCEPT
                      !.decimation_modes = ArrSet(@, n,
                          [ maxprec_1plane |-> maxprec_1plane,
                            maxprec_2planes |-> maxprec_2planes,
                            percentile_hit |-> FALSE,
                            percentile_always |-> FALSE ]),
                      !.decimation_tables = ArrSet(@, n, p) ]
                /\ loc' = [ NextGrid3D(loc) EXCEPT
                      !.decimation_mode_index[key] = n,
                      !.decimation_mode_count = n + 1 ]
    /\ UNCHANGED <<prev, pc, arg, dt, dtl, mode_out>>

\* construct_block_size_descriptor_3d between the grid loops and the mode loop
Fill3D ==
    /\ pc = "grids_3d"
    /\ ~(loc.x_weights <= arg.x_texels)
    /\ bsd' = [ FillDecimationTail(bsd, loc.decimation_mode_count) EXCEPT
                  !.decimation_mode_count = loc.decimation_mode_count ]
    /\ loc' = [ i |-> 0, packed_idx |-> 0,
                decimation_mode_index |-> loc.decimation_mode_index ]
    /\ pc' = "modes_3d"
    /\ UNCHANGED <<prev, arg, dt, dtl, mode_out, heap>>

\* One iteration of the mode loop of construct_block_size_descriptor_3d
Mode3D ==
    /\ pc = "modes_3d"
    /\ loc.i < MAX_WEIGHT_MODES
    /\ LET i   == loc.i
           d   == decode_block_mode_3d(i)
           permit_encode ==
               /\ d.valid
               /\ ~(d.x_weights > arg.x_texels \/ d.y_weights > arg.y_texels
                       \/ d.z_weights > arg.z_texels)
           key == DmiKey3D(d.x_weights, d.y_weights, d.z_weights)
           decimation_mode == loc.decimation_mode_index[key]
       IN  IF ~permit_encode
           THEN /\ bsd' = [ bsd EXCEPT !.block_mode_packed_index = ArrSet(@, i, -1) ]
                /\ loc' = [ loc EXCEPT !.i = i + 1 ]
           ELSE /\ bsd' = StoreBlockMode(
                      [ bsd EXCEPT !.decimation_modes[decimation_mode] =
                                      [ @ EXCEPT !.percentile_hit = TRUE,
                                                 !.percentile_always = TRUE ] ],
                      loc.packed_idx, i, decimation_mode, d, TRUE, TRUE)
                /\ loc' = [ loc EXCEPT !.i = i + 1, !.packed_idx = @ + 1 ]
    /\ UNCHANGED <<prev, pc, arg, dt, dtl, mode_out, heap>>

\* construct_block_size_descriptor_3d after the mode loop
Finish3D ==
    /\ pc = "modes_3d"
    /\ ~(loc.i < MAX_WEIGHT_MODES)
    /\ bsd' = assign_kmeans_texels([ bsd EXCEPT !.block_mode_count = loc.packed_idx ])
    /\ pc' = "constructed"
    /\ UNCHANGED <<prev, arg, loc, dt, dtl, mode_out, heap>>

NextBsd ==
    \/ Construct2DBegin
    \/ Mode2D
    \/ Finish2D
    \/ Construct3DBegin
    \/ Grid3D
    \/ Fill3D
    \/ Mode3D
    \/ Finish3D

SpecBsd == InitBsd /\ [][NextBsd]_vars

----------------------------------------------------------------------------
(* Properties of the assembled descriptor                                  *)

Constructed == pc = "constructed"

Is3D == arg.z_texels > 1

ModeIds == 0 .. MAX_WEIGHT_MODES - 1

PackedIds == 0 .. bsd.block_mode_count - 1

\* The decoder init used for this block size, applied to mode id m.
Redecode(m) == IF Is3D THEN decode_block_mode_3d(m) ELSE decode_block_mode_2d(m)

\* C1: after init, block_mode_packed_index[block_modes[k].mode_index] = k for
\* every k < block_mode_count, and every mode id maps to -1 or to the index of
\* a packed record that carries that mode id.
C1_PackedIndexRoundTrip ==
    Constructed =>
        /\ \A k \in PackedIds :
              bsd.block_mode_packed_index[bsd.block_modes[k].mode_index] = k
        /\ \A m \in ModeIds :
              LET k == bsd.block_mode_packed_index[m]
              IN  k = -1 \/ (k \in PackedIds /\ bsd.block_modes[k].mode_index = m)

\* init has finished for a 3D block with accepted and rejected modes.
C1_Witness ==
    /\ Constructed
    /\ Is3D
    /\ bsd.block_mode_count > 1
    /\ \E m \in ModeIds : bsd.block_mode_packed_index[m] = -1

\* C2: after init every accepted mode names a decimation mode below
\* decimation_mode_count whose table is allocated, and decoding its mode id
\* again gives a valid mode with that table's weight grid and the record's
\* dual plane flag and quant mode.
C2_AcceptedModeRedecodes ==
    Constructed =>
        \A k \in PackedIds :
            LET m  == bsd.block_modes[k]
                d  == Redecode(m.mode_index)
                p  == bsd.decimation_tables[m.decimation_mode]
                t  == heap[p].table
            IN  /\ m.decimation_mode \in 0 .. bsd.decimation_mode_count - 1
                /\ p # NullPtr
                /\ p \in DOMAIN heap
                /\ d.valid
                /\ d.x_weights = t.weight_x
                /\ d.y_weights = t.weight_y
                /\ d.z_weights = t.weight_z
                /\ d.is_dual_plane = m.is_dual_plane
                /\ d.quant_mode = m.quant_mode

\* init has finished for a 2D block whose modes share decimation tables and
\* use grids that are not square.
C2_Witness ==
    /\ Constructed
    /\ ~Is3D
    /\ bsd.block_mode_count > bsd.decimation_mode_count
    /\ \E k \in PackedIds :
          LET t == heap[bsd.decimation_tables[bsd.block_modes[k].decimation_mode]].table
          IN  t.weight_x # t.weight_y

\* The quant levels at which n values fit the weight bit envelope
LevelsInEnvelope(n) ==
    { q \in 0 .. 11 :
        /\ get_ise_sequence_bitcount(n, q) >= MIN_WEIGHT_BITS_PER_BLOCK
        /\ get_ise_sequence_bitcount(n, q) <= MAX_WEIGHT_BITS_PER_BLOCK }

\* The largest element of a set of levels, -1 if there is none
LargestOf(levels) ==
    IF levels = {} THEN -1
    ELSE CHOOSE q \in levels : \A r \in levels : r <= q

LargestLevel(n) == LargestOf(LevelsInEnvelope(n))

\* The number of weights of the grid of decimation mode k
GridWeights(k) ==
    heap[bsd.decimation_tables[k]].table.weight_x
      * heap[bsd.decimation_tables[k]].table.weight_y
      * heap[bsd.decimation_tables[k]].table.weight_z

\* C21: for every decimation mode init creates, with n grid weights,
\* maxprec_1plane is the largest level q in 0..11 at which n values take
\* between 24 and 96 bits (-1 if there is none), and maxprec_2planes is the
\* same for 2n values, or -1 when 2n > 64; for every table of the 2D path
\* at least one of the two is >= 0, which is what construct_dt_entry_2d
\* asserts.
C21_MaxPrec ==
    Constructed =>
        \A k \in 0 .. bsd.decimation_mode_count - 1 :
            /\ bsd.decimation_modes[k].maxprec_1plane = LargestLevel(GridWeights(k))
            /\ bsd.decimation_modes[k].maxprec_2planes =
                  IF 2 * GridWeights(k) > MAX_WEIGHTS_PER_BLOCK THEN -1
                  ELSE LargestLevel(2 * GridWeights(k))
            /\ ~Is3D => \/ bsd.decimation_modes[k].maxprec_1plane >= 0
                        \/ bsd.decimation_modes[k].maxprec_2planes >= 0

\* init has finished for a 2D block with a grid that has no level for one
\* plane, a grid too large for two planes, and a grid whose largest level
\* for one plane is neither the first in the envelope nor the last of all.
C21_Witness ==
    /\ Constructed
    /\ ~Is3D
    /\ \E k \in 0 .. bsd.decimation_mode_count - 1 :
          /\ bsd.decimation_modes[k].maxprec_1plane = -1
          /\ bsd.decimation_modes[k].maxprec_2planes >= 0
    /\ \E k \in 0 .. bsd.decimation_mode_count - 1 :
          /\ 2 * GridWeights(k) > MAX_WEIGHTS_PER_BLOCK
          /\ bsd.decimation_modes[k].maxprec_2planes = -1
          /\ bsd.decimation_modes[k].maxprec_1plane \in 1 .. 10
          /\ Cardinality(LevelsInEnvelope(GridWeights(k))) > 1

\* The 2D acceptance condition of mode id m, from the decoder and the
\* arguments of init.
Accept2D(m) ==
    LET d == decode_block_mode_2d(m)
    IN  /\ d.valid
        /\ d.x_weights <= arg.x_texels
        /\ d.y_weights <= arg.y_texels
        /\ ~(arg.can_omit_modes
               /\ get_2d_percentile_table(arg.x_texels, arg.y_texels, m) > arg.mode_cutoff)

InBlockModes(m) == \E k \in PackedIds : bsd.block_modes[k].mode_index = m

\* C8: in the 2D path a mode id is in block_modes exactly if it decodes as
\* valid, its grid fits the block and the percentile heuristic does not omit
\* it; every other mode id, 0x07FF (2047) among them, has packed index -1.
C8_AcceptedIffValid2D ==
    (Constructed /\ ~Is3D) =>
        /\ \A m \in ModeIds :
              /\ InBlockModes(m) <=> Accept2D(m)
              /\ ~Accept2D(m) => bsd.block_mode_packed_index[m] = -1
        /\ bsd.block_mode_packed_index[2047] = -1

\* init has finished for a 2D block where the heuristic omitted a mode that
\* is valid and fits, and kept another one.
C8_Witness ==
    /\ Constructed
    /\ ~Is3D
    /\ arg.can_omit_modes
    /\ \E m \in ModeIds :
          LET d == decode_block_mode_2d(m)
          IN  /\ d.valid
              /\ d.x_weights <= arg.x_texels
              /\ d.y_weights <= arg.y_texels
              /\ ~InBlockModes(m)
    /\ bsd.block_mode_count > 0

----------------------------------------------------------------------------
(* Decimation tables (initialize_decimation_table_2d / _3d)                *)

\* float values as fractions
Flt(n) == <<n, 1>>

FltMul(a, b) == <<a[1] * b[1], a[2] * b[2]>>

FltRecip(n) == <<1, n>>

FltEq(a, b) == a[1] * b[2] = b[1] * a[2]

FltZero == Flt(0)

\* A C array of four cells.
Arr4(a, b, c, d) == [k \in 0 .. 3 |-> CASE k = 0 -> a [] k = 1 -> b [] k = 2 -> c [] OTHER -> d]

\* a[j][i] = v on a two-dimensional C array
ArrSet2(a, j, i, v) ==
    ArrSet(a, j, ArrSet(IF j \in DOMAIN a THEN a[j] ELSE EmptyArr, i, v))

\* SIMD widths of the supported builds (scalar, SSE / NEON, AVX2).
SimdWidths == {1, 4, 8}

round_up_to_simd_multiple_vla(count, simd) == ((count + simd - 1) \div simd) * simd

\* The position scaled by the number of weights instead of one less.
GridCoord_Weights(texels, weights, c) ==
    Shr(((1024 + texels \div 2) \div (texels - 1)) * c * weights + 32, 6)

\* The position of a texel on one axis of the weight grid, in 1/16 units.
GridCoord(texels, weights, c) ==
    Shr(((1024 + texels \div 2) \div (texels - 1)) * c * (weights - 1) + 32, 6)

\* Bilinear weights with the corner term left out of weight[0].
Bilinear_NoCorner(x_texels, y_texels, x_weights, y_weights, x, y) ==
    LET x_weight == GridCoord(x_texels, x_weights, x)
        y_weight == GridCoord(y_texels, y_weights, y)
        x_weight_frac == BitAnd(x_weight, 15)
        y_weight_frac == BitAnd(y_weight, 15)
        x_weight_int  == Shr(x_weight, 4)
        y_weight_int  == Shr(y_weight, 4)
        q0   == x_weight_int + y_weight_int * x_weights
        prod == x_weight_frac * y_weight_frac
        w3   == Shr(prod + 8, 4)
    IN  [ qweight |-> Arr4(q0, q0 + 1, q0 + x_weights, q0 + x_weights + 1),
          weight  |-> Arr4(16 - x_weight_frac - y_weight_frac,
                           x_weight_frac - w3, y_weight_frac - w3, w3) ]

\* qweight[4] and weight[4] of texel (x, y): truncated-precision bilinear
\* interpolation
Bilinear(x_texels, y_texels, x_weights, y_weights, x, y) ==
    LET x_weight == GridCoord(x_texels, x_weights, x)
        y_weight == GridCoord(y_texels, y_weights, y)
        x_weight_frac == BitAnd(x_weight, 15)
        y_weight_frac == BitAnd(y_weight, 15)
        x_weight_int  == Shr(x_weight, 4)
        y_weight_int  == Shr(y_weight, 4)
        q0   == x_weight_int + y_weight_int * x_weights
        prod == x_weight_frac * y_weight_frac
        w3   == Shr(prod + 8, 4)
    IN  [ qweight |-> Arr4(q0, q0 + 1, q0 + x_weights, q0 + x_weights + 1),
          weight  |-> Arr4(16 - x_weight_frac - y_weight_frac + w3,
                           x_weight_frac - w3, y_weight_frac - w3, w3) ]

\* The switch with the weights of case 7 in case 3.
SimplexCase_Case3As7(cas, N, NM, fs, ft, fp) ==
    CASE cas = 7 -> <<1, N, 16 - fs, fs - ft, ft - fp, fp>>
      [] cas = 3 -> <<N, 1, 16 - fs, fs - ft, ft - fp, fp>>
      [] cas = 5 -> <<1, NM, 16 - fs, fs - fp, fp - ft, ft>>
      [] cas = 4 -> <<NM, 1, 16 - fp, fp - fs, fs - ft, ft>>
      [] cas = 2 -> <<N, NM, 16 - ft, ft - fp, fp - fs, fs>>
      [] cas = 0 -> <<NM, N, 16 - fp, fp - ft, ft - fs, fs>>
      [] OTHER   -> <<NM, N, 16 - fp, fp - ft, ft - fs, fs>>

\* The switch on cas: <<s1, s2, w0, w1, w2, w3>>
SimplexCase(cas, N, NM, fs, ft, fp) ==
    CASE cas = 7 -> <<1, N, 16 - fs, fs - ft, ft - fp, fp>>
      [] cas = 3 -> <<N, 1, 16 - ft, ft - fs, fs - fp, fp>>
      [] cas = 5 -> <<1, NM, 16 - fs, fs - fp, fp - ft, ft>>
      [] cas = 4 -> <<NM, 1, 16 - fp, fp - fs, fs - ft, ft>>
      [] cas = 2 -> <<N, NM, 16 - ft, ft - fp, fp - fs, fs>>
      [] cas = 0 -> <<NM, N, 16 - fp, fp - ft, ft - fs, fs>>
      [] OTHER   -> <<NM, N, 16 - fp, fp - ft, ft - fs, fs>>

Bit(b) == IF b THEN 1 ELSE 0

\* int cas = ((fs > ft) << 2) + ((ft > fp) << 1) + ((fs > fp));
SimplexCas(fs, ft, fp) == Shl(Bit(fs > ft), 2) + Shl(Bit(ft > fp), 1) + Bit(fs > fp)

\* qweight[4] and weight[4] of texel (x, y, z): simplex interpolation
Simplex(x_texels, y_texels, z_texels, x_weights, y_weights, z_weights, x, y, z) ==
    LET x_weight == GridCoord(x_texels, x_weights, x)
        y_weight == GridCoord(y_texels, y_weights, y)
        z_weight == GridCoord(z_texels, z_weights, z)
        fs == BitAnd(x_weight, 15)
        ft == BitAnd(y_weight, 15)
        fp == BitAnd(z_weight, 15)
        x_weight_int == Shr(x_weight, 4)
        y_weight_int == Shr(y_weight, 4)
        z_weight_int == Shr(z_weight, 4)
        q0  == (z_weight_int * y_weights + y_weight_int) * x_weights + x_weight_int
        q3  == ((z_weight_int + 1) * y_weights + (y_weight_int + 1)) * x_weights
                   + (x_weight_int + 1)
        cas == SimplexCas(fs, ft, fp)
        c   == SimplexCase(cas, x_weights, x_weights * y_weights, fs, ft, fp)
        q1  == q0 + c[1]
        q2  == q1 + c[2]
    IN  [ qweight |-> Arr4(q0, q1, q2, q3),
          weight  |-> Arr4(c[3], c[4], c[5], c[6]) ]

\* for (i = 0; i < 4; i++) if (weight[i] != 0) { record the pair both ways }
\* A grid index outside [0, weights_per_block) has no initialised counter:
\* the access is flagged in `ub` and the slot is not recorded.
RECURSIVE AddSlots(_, _, _, _, _)
AddSlots(l, texel, qweight, weight, i) ==
    IF i >= 4 THEN l
    ELSE IF weight[i] = 0 THEN AddSlots(l, texel, qweight, weight, i + 1)
    ELSE IF qweight[i] \notin DOMAIN l.texel_count_of_weight
         THEN AddSlots([l EXCEPT !.ub = TRUE], texel, qweight, weight, i + 1)
    ELSE LET q == qweight[i]
             n == l.weight_count_of_texel[texel]
             c == l.texel_count_of_weight[q]
         IN  AddSlots(
                 [ l EXCEPT
                     !.grid_weights_of_texel = ArrSet2(@, texel, n, q % 256),
                     !.weights_of_texel = ArrSet2(@, texel, n, weight[i] % 256),
                     !.weight_count_of_texel[texel] = (n + 1) % 256,
                     !.texels_of_weight = ArrSet2(@, q, c, texel % 256),
                     !.texel_weights_of_weight = ArrSet2(@, q, c, weight[i]),
                     !.texel_count_of_weight[q] = (c + 1) % 256,
                     !.max_texel_count_of_weight = Max(@, (c + 1) % 256) ],
                 texel, qweight, weight, i + 1)

\* A decimation_table before initialisation: nothing written.
NewDt ==
    [ texel_count |-> None, weight_count |-> None,
      weight_x |-> None, weight_y |-> None, weight_z |-> None,
      texel_weight_count |-> EmptyArr, texel_weights_4t |-> EmptyArr,
      texel_weights_int_4t |-> EmptyArr, texel_weights_float_4t |-> EmptyArr,
      weight_texel_count |-> EmptyArr, weight_texel |-> EmptyArr,
      weights_flt |-> EmptyArr, texel_weights_texel |-> EmptyArr,
      texel_weights_float_texel |-> EmptyArr ]

\* The weight grids of the valid 2D block modes.
Grids2D ==
    { <<decode_block_mode_2d(m).x_weights, decode_block_mode_2d(m).y_weights>> :
        m \in { n \in 0 .. MAX_WEIGHT_MODES - 1 : decode_block_mode_2d(n).valid } }

\* The calls init makes: 2D for the grid of every accepted mode, 3D for every
\* grid of the loops that has at most MAX_WEIGHTS_PER_BLOCK weights.
DtArgs ==
    { [ x_texels |-> c[1][1], y_texels |-> c[1][2], z_texels |-> 1,
        x_weights |-> c[2][1], y_weights |-> c[2][2], z_weights |-> 1 ] :
        c \in { bg \in Blocks2D \X Grids2D :
                  bg[2][1] <= bg[1][1] /\ bg[2][2] <= bg[1][2] } }
    \cup
    { [ x_texels |-> c[1][1], y_texels |-> c[1][2], z_texels |-> c[1][3],
        x_weights |-> c[2][1], y_weights |-> c[2][2], z_weights |-> c[2][3] ] :
        c \in { bg \in Blocks3D \X ((2 .. 6) \X (2 .. 6) \X (2 .. 6)) :
                  /\ bg[2][1] <= bg[1][1]
                  /\ bg[2][2] <= bg[1][2]
                  /\ bg[2][3] <= bg[1][3]
                  /\ bg[2][1] * bg[2][2] * bg[2][3] <= MAX_WEIGHTS_PER_BLOCK } }

TexelsPerBlock == arg.x_texels * arg.y_texels * arg.z_texels

WeightsPerBlock == arg.x_weights * arg.y_weights * arg.z_weights

InitDt ==
    /\ pc = "dt_init"
    /\ arg \in DtArgs
    /\ bsd = IdleBsd
    /\ loc = IdleLoc
    /\ dt = NewDt
    /\ dtl = IdleDtl
    /\ heap = IdleHeap
    /\ mode_out = None
    /\ prev = {}

\* The two loops that zero the counters, and the loop variables.
DtBegin ==
    /\ pc = "dt_init"
    /\ dtl' = [ texel |-> 0, i |-> 0, simd |-> None, ub |-> FALSE,
                weight_count_of_texel |-> [t \in 0 .. TexelsPerBlock - 1 |-> 0],
                grid_weights_of_texel |-> EmptyArr,
                weights_of_texel |-> EmptyArr,
                texel_count_of_weight |-> [w \in 0 .. WeightsPerBlock - 1 |-> 0],
                max_texel_count_of_weight |-> 0,
                texels_of_weight |-> EmptyArr,
                texel_weights_of_weight |-> EmptyArr ]
    /\ pc' = "dt_texels"
    /\ UNCHANGED <<prev, arg, bsd, loc, dt, mode_out, heap>>

\* One body of the texel loops of initialize_decimation_table_2d; texel
\* counts the bodies run, in the order of the nested y, x loops.
DtTexel2D ==
    /\ pc = "dt_texels"
    /\ arg.z_texels = 1
    /\ dtl.texel < TexelsPerBlock
    /\ LET x == dtl.texel % arg.x_texels
           y == dtl.texel \div arg.x_texels
           texel == y * arg.x_texels + x
           b == Bilinear(arg.x_texels, arg.y_texels, arg.x_weights, arg.y_weights, x, y)
       IN  dtl' = [ AddSlots(dtl, texel, b.qweight, b.weight, 0) EXCEPT
                      !.texel = dtl.texel + 1 ]
    /\ UNCHANGED <<prev, pc, arg, bsd, loc, dt, mode_out, heap>>

\* One body of the texel loops of initialize_decimation_table_3d; texel
\* counts the bodies run, in the order of the nested z, y, x loops.
DtTexel3D ==
    /\ pc = "dt_texels"
    /\ arg.z_texels > 1
    /\ dtl.texel < TexelsPerBlock
    /\ LET x == dtl.texel % arg.x_texels
           y == (dtl.texel \div arg.x_texels) % arg.y_texels
           z == dtl.texel \div (arg.x_texels * arg.y_texels)
           texel == (z * arg.y_texels + y) * arg.x_texels + x
           b == Simplex(arg.x_texels, arg.y_texels, arg.z_texels,
                        arg.x_weights, arg.y_weights, arg.z_weights, x, y, z)
       IN  dtl' = [ AddSlots(dtl, texel, b.qweight, b.weight, 0) EXCEPT
                      !.texel = dtl.texel + 1 ]
    /\ UNCHANGED <<prev, pc, arg, bsd, loc, dt, mode_out, heap>>

\* The loop that copies the per-texel lists into the transposed arrays of
\* the table, unused slots zeroed.
DtTranspose ==
    /\ pc = "dt_texels"
    /\ ~(dtl.texel < TexelsPerBlock)
    /\ LET T  == 0 .. TexelsPerBlock - 1
           wc == dtl.weight_count_of_texel
       IN  dt' = [ dt EXCEPT
                !.texel_weight_count = [i \in T |-> wc[i]],
                !.texel_weights_int_4t =
                    [j \in 0 .. 3 |-> [i \in T |->
                        IF j < wc[i] THEN dtl.weights_of_texel[i][j] ELSE 0]],
                !.texel_weights_float_4t =
                    [j \in 0 .. 3 |-> [i \in T |->
                        IF j < wc[i]
                        THEN FltMul(Flt(dtl.weights_of_texel[i][j]),
                                    FltRecip(TEXEL_WEIGHT_SUM))
                        ELSE FltZero]],
                !.texel_weights_4t =
                    [j \in 0 .. 3 |-> [i \in T |->
                        IF j < wc[i] THEN dtl.grid_weights_of_texel[i][j] ELSE 0]] ]
    /\ pc' = "dt_weights"
    /\ UNCHANGED <<prev, arg, bsd, loc, dtl, mode_out, heap>>

\* The cell scaled like the per-texel float channel.
WeightFlt_Scaled(w) == FltMul(Flt(w), FltRecip(TEXEL_WEIGHT_SUM))

\* dt.weights_flt[j][i] = (float)texel_weights_of_weight[i][j]
WeightFlt(w) == Flt(w)

\* The search with the two indices of the comparison mixed up.
SwapIdx_Texel(d, i, texel) ==
    LET hits == { k \in 0 .. 3 : d.texel_weights_4t[k][texel] = texel
                                   /\ d.texel_weights_float_4t[k][texel][1] # 0 }
    IN  IF hits = {} THEN -1 ELSE CHOOSE k \in hits : \A h \in hits : h <= k

\* swap_idx: the last slot k of the texel that holds weight i with a
\* non-zero blend weight, -1 if there is none
SwapIdx(d, i, texel) ==
    LET hits == { k \in 0 .. 3 : d.texel_weights_4t[k][texel] = i
                                   /\ d.texel_weights_float_4t[k][texel][1] # 0 }
    IN  IF hits = {} THEN -1 ELSE CHOOSE k \in hits : \A h \in hits : h <= k

\* The cell of swap_idx moved to the front, the others shifted up in order.
IdentityReorder_Rotate(cells, swap_idx) ==
    IF swap_idx = 0 \/ swap_idx = -1 THEN cells
    ELSE [k \in 0 .. 3 |->
            IF k = 0 THEN cells[swap_idx]
            ELSE IF k <= swap_idx THEN cells[k - 1]
            ELSE cells[k]]

\* if (swap_idx != 0) { exchange cells 0 and swap_idx }; with swap_idx = -1
\* the exchange is out of bounds and the cells are left as they are.
IdentityReorder(cells, swap_idx) ==
    IF swap_idx = 0 \/ swap_idx = -1 THEN cells
    ELSE [ cells EXCEPT ![0] = cells[swap_idx], ![swap_idx] = cells[0] ]

\* The tail filled with the first texel of the list.
LastTexel_First(texels, texel_count_wt) ==
    IF texel_count_wt = 0 THEN 0 ELSE texels[0]

\* uint8_t last_texel = dt.weight_texel[texel_count_wt - 1][i], for the
\* list texels of the weight; with an empty list the read is out of bounds
\* and dtl.ub records it.
LastTexel(texels, texel_count_wt) ==
    IF texel_count_wt = 0 THEN 0 ELSE texels[texel_count_wt - 1]

\* One body of the weight loop: the transposed weight-to-texel lists of
\* weight i, the reordered contributor lists, and the tail of the lists.
DtWeight ==
    /\ pc = "dt_weights"
    /\ dtl.i < WeightsPerBlock
    /\ LET i    == dtl.i
           texel_count_wt == dtl.texel_count_of_weight[i]
           maxc == dtl.max_texel_count_of_weight
           J    == 0 .. texel_count_wt - 1
           texel(j)  == dtl.texels_of_weight[i][j]
           swap(j)   == SwapIdx(dt, i, texel(j))
           last_texel == LastTexel(dtl.texels_of_weight[i], texel_count_wt)
           row(a, j) == IF j \in DOMAIN a THEN a[j] ELSE EmptyArr
       IN  /\ dt' = [ dt EXCEPT
                !.weight_texel_count = ArrSet(@, i, texel_count_wt % 256),
                !.weight_texel =
                    [j \in 0 .. maxc - 1 |->
                        ArrSet(row(dt.weight_texel, j), i,
                               IF j < texel_count_wt THEN texel(j) ELSE last_texel)],
                !.weights_flt =
                    [j \in 0 .. maxc - 1 |->
                        ArrSet(row(dt.weights_flt, j), i,
                               IF j < texel_count_wt
                               THEN WeightFlt(dtl.texel_weights_of_weight[i][j])
                               ELSE FltZero)],
                !.texel_weights_texel = ArrSet(@, i,
                    [j \in J |-> IdentityReorder(
                        [k \in 0 .. 3 |-> dt.texel_weights_4t[k][texel(j)]], swap(j))]),
                !.texel_weights_float_texel = ArrSet(@, i,
                    [j \in J |-> IdentityReorder(
                        [k \in 0 .. 3 |-> dt.texel_weights_float_4t[k][texel(j)]],
                        swap(j))]) ]
           /\ dtl' = [ dtl EXCEPT
                !.i = i + 1,
                !.ub = @ \/ texel_count_wt = 0 \/ \E j \in J : swap(j) = -1 ]
    /\ UNCHANGED <<prev, pc, arg, bsd, loc, mode_out, heap>>

\* The loop that zeroes the texel arrays from texels_per_block up to its
\* SIMD multiple; the SIMD width of the build is picked here.
DtPadTexels ==
    /\ pc = "dt_weights"
    /\ ~(dtl.i < WeightsPerBlock)
    /\ \E simd \in SimdWidths :
         LET texels_per_block_simd ==
                 round_up_to_simd_multiple_vla(TexelsPerBlock, simd)
             T   == 0 .. texels_per_block_simd - 1
             pad(a, z) == [j \in 0 .. 3 |-> [i \in T |->
                              IF i < TexelsPerBlock THEN a[j][i] ELSE z]]
         IN  /\ dt' = [ dt EXCEPT
                  !.texel_weight_count =
                      [i \in T |-> IF i < TexelsPerBlock THEN @[i] ELSE 0],
                  !.texel_weights_float_4t = pad(@, FltZero),
                  !.texel_weights_4t = pad(@, 0),
                  !.texel_weights_int_4t = pad(@, 0) ]
             /\ dtl' = [ dtl EXCEPT !.simd = simd ]
    /\ pc' = "dt_pad"
    /\ UNCHANGED <<prev, arg, bsd, loc, mode_out, heap>>

\* The loop that fills the weight arrays from weights_per_block up to its
\* SIMD multiple, and the scalar fields of the table.
DtPadWeights ==
    /\ pc = "dt_pad"
    /\ LET last_texel_count_wt == dtl.texel_count_of_weight[WeightsPerBlock - 1]
           last_texel ==
               LastTexel([j \in 0 .. last_texel_count_wt - 1 |->
                             dt.weight_texel[j][WeightsPerBlock - 1]],
                         last_texel_count_wt)
           weights_per_block_simd ==
               round_up_to_simd_multiple_vla(WeightsPerBlock, dtl.simd)
           W == 0 .. weights_per_block_simd - 1
       IN  dt' = [ dt EXCEPT
                !.weight_texel_count =
                    [i \in W |-> IF i < WeightsPerBlock THEN @[i] ELSE 0],
                !.weight_texel =
                    [j \in DOMAIN @ |-> [i \in W |->
                        IF i < WeightsPerBlock THEN @[j][i] ELSE last_texel]],
                !.weights_flt =
                    [j \in DOMAIN @ |-> [i \in W |->
                        IF i < WeightsPerBlock THEN @[j][i] ELSE FltZero]],
                !.texel_count = TexelsPerBlock,
                !.weight_count = WeightsPerBlock,
                !.weight_x = arg.x_weights,
                !.weight_y = arg.y_weights,
                !.weight_z = arg.z_weights ]
    /\ pc' = "dt_done"
    /\ UNCHANGED <<prev, arg, bsd, loc, dtl, mode_out, heap>>

NextDt ==
    \/ DtBegin
    \/ DtTexel2D
    \/ DtTexel3D
    \/ DtTranspose
    \/ DtWeight
    \/ DtPadTexels
    \/ DtPadWeights

SpecDT == InitDt /\ [][NextDt]_vars

\* ---------------------------------------------------------------------------
\* Properties of a finished decimation table
\* ---------------------------------------------------------------------------
DtBuilt == pc = "dt_done"

DtTexels == 0 .. dt.texel_count - 1

DtWeights == 0 .. dt.weight_count - 1

ActiveSlots(i) == 0 .. dt.texel_weight_count[i] - 1

\* C3: in every table built (2D bilinear and 3D simplex), every texel has
\* between 1 and 4 active slots, each active slot holds an integer weight
\* in 1..16, each inactive slot holds 0, and the four integer weights of the
\* texel sum to exactly 16.
C3_TexelWeightsSum16 ==
    DtBuilt =>
        \A i \in DtTexels :
            /\ dt.texel_weight_count[i] \in 1 .. 4
            /\ \A s \in 0 .. 3 :
                 IF s \in ActiveSlots(i)
                 THEN dt.texel_weights_int_4t[s][i] \in 1 .. TEXEL_WEIGHT_SUM
                 ELSE dt.texel_weights_int_4t[s][i] = 0
            /\ dt.texel_weights_int_4t[0][i] + dt.texel_weights_int_4t[1][i]
                 + dt.texel_weights_int_4t[2][i] + dt.texel_weights_int_4t[3][i]
                 = TEXEL_WEIGHT_SUM

\* A finished 3D table with a texel that blends four weights and a texel
\* that sits on one weight.
C3_Witness ==
    /\ DtBuilt
    /\ arg.z_texels > 1
    /\ \E i \in DtTexels : dt.texel_weight_count[i] = 4
    /\ \E i \in DtTexels : dt.texel_weight_count[i] = 1

RECURSIVE SumOver(_, _)
SumOver(f, S) ==
    IF S = {} THEN 0
    ELSE LET x == CHOOSE y \in S : TRUE IN f[x] + SumOver(f, S \ {x})

\* C4: the two directions of a table describe the same incidence: for every
\* texel i and active slot s holding weight j there is exactly one t below
\* weight_texel_count[j] with weight_texel[t][j] = i, and weights_flt[t][j]
\* is the integer blend weight of that slot; so the per-texel counts and the
\* per-weight counts have the same total.
C4_BidirectionalIncidence ==
    DtBuilt =>
        /\ \A i \in DtTexels : \A s \in ActiveSlots(i) :
             LET j  == dt.texel_weights_4t[s][i]
                 ts == { t \in 0 .. dt.weight_texel_count[j] - 1 :
                           dt.weight_texel[t][j] = i }
             IN  /\ j \in DtWeights
                 /\ Cardinality(ts) = 1
                 /\ \A t \in ts :
                      FltEq(dt.weights_flt[t][j], Flt(dt.texel_weights_int_4t[s][i]))
        /\ SumOver([i \in DtTexels |-> dt.texel_weight_count[i]], DtTexels)
             = SumOver([j \in DtWeights |-> dt.weight_texel_count[j]], DtWeights)

\* A finished 2D table in which a texel blends four weights with four
\* different integer weights.
C4_Witness ==
    /\ DtBuilt
    /\ arg.z_texels = 1
    /\ \E i \in DtTexels :
         /\ dt.texel_weight_count[i] = 4
         /\ Cardinality({ dt.texel_weights_int_4t[s][i] : s \in 0 .. 3 }) = 4

\* C5: for every weight j and every t below weight_texel_count[j], the
\* identity search finds exactly one slot of texel weight_texel[t][j] that
\* holds j with a non-zero blend weight, and after the reorder slot 0 of
\* texel_weights_texel[j][t] is j.
C5_SlotZeroIdentity ==
    DtBuilt =>
        \A j \in DtWeights : \A t \in 0 .. dt.weight_texel_count[j] - 1 :
            LET texel == dt.weight_texel[t][j]
                hits  == { k \in 0 .. 3 :
                             /\ dt.texel_weights_4t[k][texel] = j
                             /\ ~FltEq(dt.texel_weights_float_4t[k][texel], FltZero) }
            IN  /\ Cardinality(hits) = 1
                /\ dt.texel_weights_texel[j][t][0] = j

\* A finished table where the reorder moved a contributor: the texel's own
\* slot 0 holds another weight, and the reordered list still starts with j.
C5_Witness ==
    /\ DtBuilt
    /\ \E j \in DtWeights : \E t \in 0 .. dt.weight_texel_count[j] - 1 :
         /\ dt.texel_weights_4t[0][dt.weight_texel[t][j]] # j
         /\ dt.texel_weights_texel[j][t][0] = j

\* The slot of a texel that holds weight j with a non-zero blend weight.
OwnSlot(j, texel) ==
    CHOOSE k \in 0 .. 3 :
        /\ dt.texel_weights_4t[k][texel] = j
        /\ ~FltEq(dt.texel_weights_float_4t[k][texel], FltZero)

\* The slots of a texel other than s, in ascending order.
OtherSlots(s) ==
    CASE s = 0 -> <<1, 2, 3>>
      [] s = 1 -> <<0, 2, 3>>
      [] s = 2 -> <<0, 1, 3>>
      [] OTHER -> <<0, 1, 2>>

\* C17 as stated: slots 1..3 of texel_weights_texel[j][t] and of
\* texel_weights_float_texel[j][t] hold the texel's three other slot
\* entries in the order they have in texel_weights_4t[0..4][texel].
C17_Original ==
    DtBuilt =>
        \A j \in DtWeights : \A t \in 0 .. dt.weight_texel_count[j] - 1 :
            \A n \in 1 .. 3 :
                /\ dt.texel_weights_texel[j][t][n]
                     = dt.texel_weights_4t
                         [OtherSlots(OwnSlot(j, dt.weight_texel[t][j]))[n]]
                         [dt.weight_texel[t][j]]
                /\ dt.texel_weights_float_texel[j][t][n]
                     = dt.texel_weights_float_4t
                         [OtherSlots(OwnSlot(j, dt.weight_texel[t][j]))[n]]
                         [dt.weight_texel[t][j]]

\* The entry of slot k of a texel after slot 0 and slot s were exchanged.
Exchanged(a, texel, s, k) ==
    IF k = 0 THEN a[s][texel] ELSE IF k = s THEN a[0][texel] ELSE a[k][texel]

\* C17 amended: the reorder exchanges slot 0 with the slot s that holds the
\* weight itself: texel_weights_texel[j][t] and texel_weights_float_texel[j][t]
\* hold in slot 0 the texel's entry of slot s, in slot s its entry of slot 0,
\* and in the two other slots the entries the texel has there.
C17_ReorderIsExchange ==
    DtBuilt =>
        \A j \in DtWeights : \A t \in 0 .. dt.weight_texel_count[j] - 1 :
            \A k \in 0 .. 3 :
                /\ dt.texel_weights_texel[j][t][k]
                     = Exchanged(dt.texel_weights_4t, dt.weight_texel[t][j],
                                 OwnSlot(j, dt.weight_texel[t][j]), k)
                /\ dt.texel_weights_float_texel[j][t][k]
                     = Exchanged(dt.texel_weights_float_4t, dt.weight_texel[t][j],
                                 OwnSlot(j, dt.weight_texel[t][j]), k)

\* A finished table where a weight sits in slot 2 or 3 of a texel whose
\* slots 0 and 1 hold two other weights: after the reorder the entry of slot
\* 1 comes before the entry that was in slot 0.
C17_Witness ==
    /\ DtBuilt
    /\ \E j \in DtWeights : \E t \in 0 .. dt.weight_texel_count[j] - 1 :
         /\ OwnSlot(j, dt.weight_texel[t][j]) >= 2
         /\ dt.texel_weights_4t[0][dt.weight_texel[t][j]]
              # dt.texel_weights_4t[1][dt.weight_texel[t][j]]
         /\ dt.texel_weights_texel[j][t][1]
              = dt.texel_weights_4t[1][dt.weight_texel[t][j]]
         /\ dt.texel_weights_texel[j][t][OwnSlot(j, dt.weight_texel[t][j])]
              = dt.texel_weights_4t[0][dt.weight_texel[t][j]]

\* The least multiple of simd that is not below n
SimdCeil(n, simd) == CHOOSE m \in n .. n + simd - 1 : m % simd = 0

\* The longest weight-to-texel list of the table
LongestList == CHOOSE n \in { dt.weight_texel_count[i] : i \in DtWeights } :
                   \A i \in DtWeights : dt.weight_texel_count[i] <= n

\* The last active texel of real weight i
LastActive(i) == dt.weight_texel[dt.weight_texel_count[i] - 1][i]

\* C20: in a finished table, for every real weight i the cells
\* weight_texel[j][i] with j from weight_texel_count[i] up to
\* max_texel_count_of_weight repeat the last active texel of the weight with
\* weights_flt 0; for i from weight_count up to its SIMD multiple
\* weight_texel_count[i] is 0 and every weight_texel[j][i] is the last texel
\* of weight weight_count - 1 with weights_flt 0; for the texels from
\* texel_count up to its SIMD multiple the count, the indices and the
\* weights are all 0; every padded index is a texel index below texel_count.
C20_SimdTailPadding ==
    DtBuilt =>
        /\ DOMAIN dt.weight_texel = 0 .. LongestList - 1
        /\ \A i \in DtWeights :
              /\ dt.weight_texel_count[i] >= 1
              /\ \A j \in dt.weight_texel_count[i] .. LongestList - 1 :
                    /\ dt.weight_texel[j][i] = LastActive(i)
                    /\ dt.weight_texel[j][i] \in DtTexels
                    /\ dt.weights_flt[j][i][1] = 0
        /\ \A i \in dt.weight_count .. SimdCeil(dt.weight_count, dtl.simd) - 1 :
              /\ dt.weight_texel_count[i] = 0
              /\ \A j \in 0 .. LongestList - 1 :
                    /\ dt.weight_texel[j][i] = LastActive(dt.weight_count - 1)
                    /\ dt.weight_texel[j][i] \in DtTexels
                    /\ dt.weights_flt[j][i][1] = 0
        /\ \A t \in dt.texel_count .. SimdCeil(dt.texel_count, dtl.simd) - 1 :
              /\ dt.texel_weight_count[t] = 0
              /\ \A k \in 0 .. 3 :
                    /\ dt.texel_weights_4t[k][t] = 0
                    /\ dt.texel_weights_int_4t[k][t] = 0
                    /\ dt.texel_weights_float_4t[k][t][1] = 0

\* A finished table of a build with 8 lanes that has all three tails: a
\* real weight whose list is shorter than the longest and ends in a texel
\* other than its first, padding weights and padding texels.
C20_Witness ==
    /\ DtBuilt
    /\ dtl.simd = 8
    /\ dt.weight_count % 8 # 0
    /\ dt.texel_count % 8 # 0
    /\ \E i \in DtWeights :
          /\ dt.weight_texel_count[i] < LongestList
          /\ dt.weight_texel[0][i] # LastActive(i)
          /\ dt.weight_texel[LongestList - 1][i] = LastActive(i)

\* ---------------------------------------------------------------------------
\* astcenc_partition_tables.cpp
\*
\* A uint32_t is a pair <<hi, lo>> of 16-bit halves, so that every
\* intermediate value of the arithmetic stays below 2^31.
\* ---------------------------------------------------------------------------
U32(n) == <<(n \div 65536) % 65536, n % 65536>>

U32Xor(a, b) == <<BitXor(a[1], b[1]), BitXor(a[2], b[2])>>

\* a >> n, 0 <= n < 32
U32Shr(a, n) ==
    IF n >= 16 THEN <<0, Shr(a[1], n - 16)>>
    ELSE <<Shr(a[1], n), Shr(a[2], n) + (a[1] % Pow2(n)) * Pow2(16 - n)>>

\* a << n, 0 <= n < 32, the bits shifted out of the word dropped
U32Shl(a, n) ==
    IF n >= 16 THEN <<(a[2] * Pow2(n - 16)) % 65536, 0>>
    ELSE <<(((a[1] * Pow2(n)) % 65536) + Shr(a[2], 16 - n)) % 65536,
           (a[2] * Pow2(n)) % 65536>>

U32Add(a, b) ==
    <<(a[1] + b[1] + (a[2] + b[2]) \div 65536) % 65536, (a[2] + b[2]) % 65536>>

\* the low 16 bits of x * k for 16-bit x and k
MulLow16(x, k) == (((x * (k \div 256)) % 256) * 256 + x * (k % 256)) % 65536

\* a * k modulo 2^32
U32Mul(a, k) ==
    <<((a[2] * k[2]) \div 65536 + MulLow16(a[1], k[2]) + MulLow16(a[2], k[1])) % 65536,
      (a[2] * k[2]) % 65536>>

\* 0xEEDE0891 == (2^4 + 1) * (2^7 + 1) * (2^17 - 1)
HashMultiplier == <<61150, 2193>>

\* inp ^= inp >> n
XorShr(inp, n) == U32Xor(inp, U32Shr(inp, n))

\* inp ^= inp << n
XorShl(inp, n) == U32Xor(inp, U32Shl(inp, n))

\* inp += inp << n
AddShl(inp, n) == U32Add(inp, U32Shl(inp, n))

\* The statements of hash52, the first innermost.
hash52(inp) ==
    XorShr(XorShl(XorShr(XorShr(AddShl(XorShr(
        U32Mul(XorShr(inp, 15), HashMultiplier), 5), 16), 7), 3), 6), 17)

\* hash52 of every value select_partition passes to it: a seed below
\* PARTITION_COUNT plus (partition_count - 1) * 1024, partition_count in 1..4
Hash52Of == [sd \in 0 .. 4 * PARTITION_COUNT - 1 |-> hash52(U32(sd))]

\* (rnum >> n) & 0xF
Nibble(rnum, n) == U32Shr(rnum, n)[2] % 16

\* A seed squared as a uint8_t and shifted right.
SeedSq(v, sh) == Shr((v * v) % 256, sh)

\* The final choice with the ties given to the highest component.
Argmax_TiesHigh(a, b, c, d) ==
    IF a > b /\ a > c /\ a > d THEN 0
    ELSE IF b > c /\ b > d THEN 1
    ELSE IF c > d THEN 2
    ELSE 3

\* if (a >= b && a >= c && a >= d) 0; else if (b >= c && b >= d) 1; ...
Argmax(a, b, c, d) ==
    IF a >= b /\ a >= c /\ a >= d THEN 0
    ELSE IF b >= c /\ b >= d THEN 1
    ELSE IF c >= d THEN 2
    ELSE 3

select_partition(seed, x, y, z, partition_count, small_block) ==
    LET bx == IF small_block THEN Shl(x, 1) ELSE x
        by == IF small_block THEN Shl(y, 1) ELSE y
        bz == IF small_block THEN Shl(z, 1) ELSE z
        sd == seed + (partition_count - 1) * 1024
        rnum == Hash52Of[sd]
        sh1 == IF sd % 2 = 1
               THEN (IF Shr(sd, 1) % 2 = 1 THEN 4 ELSE 5)
               ELSE (IF partition_count = 3 THEN 6 ELSE 5)
        sh2 == IF sd % 2 = 1
               THEN (IF partition_count = 3 THEN 6 ELSE 5)
               ELSE (IF Shr(sd, 1) % 2 = 1 THEN 4 ELSE 5)
        sh3 == IF Shr(sd, 4) % 2 = 1 THEN sh1 ELSE sh2
        seed1  == SeedSq(Nibble(rnum, 0), sh1)
        seed2  == SeedSq(Nibble(rnum, 4), sh2)
        seed3  == SeedSq(Nibble(rnum, 8), sh1)
        seed4  == SeedSq(Nibble(rnum, 12), sh2)
        seed5  == SeedSq(Nibble(rnum, 16), sh1)
        seed6  == SeedSq(Nibble(rnum, 20), sh2)
        seed7  == SeedSq(Nibble(rnum, 24), sh1)
        seed8  == SeedSq(Nibble(rnum, 28), sh2)
        seed9  == SeedSq(Nibble(rnum, 18), sh3)
        seed10 == SeedSq(Nibble(rnum, 22), sh3)
        seed11 == SeedSq(Nibble(rnum, 26), sh3)
        seed12 == SeedSq(U32Shr(rnum, 30)[2] + (rnum[2] % 4) * 4, sh3)
        a == (seed1 * bx + seed2 * by + seed11 * bz + U32Shr(rnum, 14)[2]) % 64
        b == (seed3 * bx + seed4 * by + seed12 * bz + U32Shr(rnum, 10)[2]) % 64
        c == (seed5 * bx + seed6 * by + seed9 * bz + U32Shr(rnum, 6)[2]) % 64
        d == (seed7 * bx + seed8 * by + seed10 * bz + U32Shr(rnum, 2)[2]) % 64
    IN  Argmax(a,
               IF partition_count <= 1 THEN 0 ELSE b,
               IF partition_count <= 2 THEN 0 ELSE c,
               IF partition_count <= 3 THEN 0 ELSE d)

\* pi.texels_of_partition[part][counts[part]++] = texel_idx++;
\* *partition_of_texel++ = part; and the x++ of the loop
StoreTexel(acc, part) ==
    [ acc EXCEPT
        !.texels_of_partition[part] = ArrSet(@, acc.counts[part], acc.texel_idx % 256),
        !.counts[part] = @ + 1,
        !.partition_of_texel = ArrSet(@, acc.texel_idx, part),
        !.texel_idx = @ + 1,
        !.x = @ + 1 ]

\* The x loop of generate_one_partition_info_entry: acc holds the locals
\* x, y, z, texel_idx and counts, and pi.partition_of_texel and
\* pi.texels_of_partition.
RECURSIVE AssignX(_, _, _, _)
AssignX(b, partition_count, partition_index, acc) ==
    IF ~(acc.x < b.xdim) THEN acc
    ELSE AssignX(b, partition_count, partition_index,
             StoreTexel(acc,
                 select_partition(partition_index, acc.x, acc.y, acc.z,
                                  partition_count, b.texel_count < 32)))

\* The y loop.
RECURSIVE AssignY(_, _, _, _)
AssignY(b, partition_count, partition_index, acc) ==
    IF ~(acc.y < b.ydim) THEN acc
    ELSE AssignY(b, partition_count, partition_index,
             [ AssignX(b, partition_count, partition_index, [acc EXCEPT !.x = 0])
                 EXCEPT !.y = @ + 1 ])

\* The z loop.
RECURSIVE AssignZ(_, _, _, _)
AssignZ(b, partition_count, partition_index, acc) ==
    IF ~(acc.z < b.zdim) THEN acc
    ELSE AssignZ(b, partition_count, partition_index,
             [ AssignY(b, partition_count, partition_index, [acc EXCEPT !.y = 0])
                 EXCEPT !.z = @ + 1 ])

\* The partition count as the number of non-empty partitions.
PartitionCountOf_NonEmpty(counts, partition_count) ==
    Cardinality({ p \in 0 .. 3 : counts[p] > 0 })

\* The partition count stored without looking at the texel counts.
PartitionCountOf_Requested(counts, partition_count) == partition_count

\* if (counts[0] == 0) 0 else if (counts[1] == 0) 1 else ...
PartitionCountOf(counts, partition_count) ==
    IF counts[0] = 0 THEN 0
    ELSE IF counts[1] = 0 THEN 1
    ELSE IF counts[2] = 0 THEN 2
    ELSE IF counts[3] = 0 THEN 3
    ELSE 4

\* pi.texels_of_partition[i] with its tail filled
FillTail(texels, ptex_count, ptex_count_simd) ==
    [j \in 0 .. ptex_count_simd - 1 |->
        IF j < ptex_count THEN texels[j] ELSE texels[ptex_count - 1]]

\* The bitmap of a partition overwritten by the bit of the kmeans texel.
CoverBit_Assign(cov, part) ==
    [ cov EXCEPT !.coverage_bitmaps[part] = {cov.i}, !.i = @ + 1 ]

\* pi.coverage_bitmaps[part] |= 1ULL << i; and the i++ of the loop.  A
\* uint64_t bitmap is the set of its set bits.
CoverBit(cov, part) ==
    [ cov EXCEPT !.coverage_bitmaps[part] = @ \cup {cov.i}, !.i = @ + 1 ]

\* The loop over the kmeans texels of generate_one_partition_info_entry:
\* cov holds i and pi.coverage_bitmaps.
RECURSIVE CoverageLoop(_, _, _)
CoverageLoop(b, partition_of_texel, cov) ==
    IF ~(cov.i < b.kmeans_texel_count) THEN cov.coverage_bitmaps
    ELSE CoverageLoop(b, partition_of_texel,
             CoverBit(cov, partition_of_texel[b.kmeans_texels[cov.i]]))

\* generate_one_partition_info_entry after the texel loops, acc their
\* result.
FillEntry(b, partition_count, simd, acc) ==
    [ partition_count |-> PartitionCountOf(acc.counts, partition_count),
      partition_texel_count |-> [i \in 0 .. 3 |-> acc.counts[i]],
      partition_of_texel |-> acc.partition_of_texel,
      texels_of_partition |->
          [i \in 0 .. 3 |->
              IF i < partition_count
              THEN FillTail(acc.texels_of_partition[i], acc.counts[i],
                       round_up_to_simd_multiple_vla(acc.counts[i], simd))
              ELSE acc.texels_of_partition[i]],
      coverage_bitmaps |->
          CoverageLoop(b, acc.partition_of_texel,
              [ i |-> 0, coverage_bitmaps |-> [p \in 0 .. 3 |-> {}] ]) ]

generate_one_partition_info_entry(b, partition_count, partition_index, simd) ==
    FillEntry(b, partition_count, simd,
        AssignZ(b, partition_count, partition_index,
            [ x |-> 0, y |-> 0, z |-> 0,
              texel_idx |-> 0,
              partition_of_texel |-> EmptyArr,
              texels_of_partition |-> [p \in 0 .. 3 |-> EmptyArr],
              counts |-> [p \in 0 .. 3 |-> 0] ]))

\* The loop step that keeps the raw partition id: mapped_index[index] = index.
Remap_Raw(m, index) ==
    [ m EXCEPT !.mapped_index[index] = index, !.f = @ + 1 ]

\* if (mapped_index[index] == -1) mapped_index[index] = map_weight_count++;
\* and the step of the loop
Remap(m, index) ==
    IF m.mapped_index[index] = -1
    THEN [ m EXCEPT !.mapped_index[index] = m.map_weight_count,
                    !.map_weight_count = @ + 1,
                    !.f = @ + 1 ]
    ELSE [ m EXCEPT !.f = @ + 1 ]

\* The texel loop of generate_canonical_partitioning over the texels of
\* bit_pattern[w]: m holds the field f reached, mapped_index and
\* map_weight_count.
RECURSIVE MapFields(_, _, _, _)
MapFields(texel_count, partition_of_texel, w, m) ==
    IF m.f > 31 \/ ~(w * 32 + m.f < texel_count) THEN m
    ELSE MapFields(texel_count, partition_of_texel, w,
             Remap(m, partition_of_texel[w * 32 + m.f]))

\* The same loop over the words below w.
RECURSIVE MapWords(_, _, _)
MapWords(texel_count, partition_of_texel, w) ==
    IF w = 0
    THEN [ f |-> 0, mapped_index |-> [p \in 0 .. 3 |-> -1], map_weight_count |-> 0 ]
    ELSE MapFields(texel_count, partition_of_texel, w - 1,
                   [ MapWords(texel_count, partition_of_texel, w - 1) EXCEPT !.f = 0 ])

\* bit_pattern[7], each word a function from the 32 two-bit fields to 0..3
PackPattern(texel_count, partition_of_texel, mapped_index) ==
    [w \in 0 .. 6 |-> [f \in 0 .. 31 |->
        IF w * 32 + f < texel_count
        THEN mapped_index[partition_of_texel[w * 32 + f]]
        ELSE 0]]

generate_canonical_partitioning(texel_count, partition_of_texel) ==
    PackPattern(texel_count, partition_of_texel,
                MapWords(texel_count, partition_of_texel, 7).mapped_index)

\* The comparison that looks at the first word only.
compare_canonical_partitionings_Word0(part1, part2) == part1[0] = part2[0]

compare_canonical_partitionings(part1, part2) ==
    /\ part1[0] = part2[0] /\ part1[1] = part2[1]
    /\ part1[2] = part2[2] /\ part1[3] = part2[3]
    /\ part1[4] = part2[4] /\ part1[5] = part2[5]
    /\ part1[6] = part2[6]

\* The number of seeds of each table that are generated and compared.
MaxSeeds == 13

\* A loop bound of the code, capped.
SeedLimit(n) == IF n < MaxSeeds THEN n ELSE MaxSeeds

\* The pair loops of remove_duplicate_partitionings
MarkDuplicates(pt, bit_patterns) ==
    [i \in DOMAIN pt |->
        IF \E j \in 0 .. i - 1 :
               compare_canonical_partitionings(bit_patterns[i], bit_patterns[j])
        THEN [ pt[i] EXCEPT !.partition_count = 0 ]
        ELSE pt[i]]

\* pt is one table, indexed from 0
remove_duplicate_partitionings(texel_count, pt) ==
    MarkDuplicates(pt,
        [i \in DOMAIN pt |->
            generate_canonical_partitioning(texel_count, pt[i].partition_of_texel)])

\* The tables inside bsd.partitions
par_tab2 == 0

par_tab3 == par_tab2 + PARTITION_COUNT

par_tab4 == par_tab3 + PARTITION_COUNT

par_tab1 == par_tab4 + PARTITION_COUNT

ParTab(partition_count) ==
    CASE partition_count = 1 -> par_tab1
      [] partition_count = 2 -> par_tab2
      [] partition_count = 3 -> par_tab3
      [] OTHER -> par_tab4

PtArgs ==
    { [ x_texels |-> b[1], y_texels |-> b[2], z_texels |-> b[3], simd |-> w ] :
        b \in Blocks2D \cup Blocks3D, w \in SimdWidths }

\* The descriptor as construct_block_size_descriptor_2d/3d hand it to
\* init_partition_tables: the footprint and the kmeans texels are set.
InitPt ==
    /\ pc = "pt_init"
    /\ arg \in PtArgs
    /\ bsd = assign_kmeans_texels(
               [ NewBsd EXCEPT !.xdim = arg.x_texels,
                               !.ydim = arg.y_texels,
                               !.zdim = arg.z_texels,
                               !.texel_count = arg.x_texels * arg.y_texels * arg.z_texels ])
    /\ loc = IdleLoc
    /\ dt = IdleDt
    /\ dtl = IdleDtl
    /\ heap = IdleHeap
    /\ mode_out = None
    /\ prev = {}

\* generate_one_partition_info_entry(bsd, 1, 0, *par_tab1)
PtBegin ==
    /\ pc = "pt_init"
    /\ bsd' = [ bsd EXCEPT !.partitions = ArrSet(@, par_tab1,
                    generate_one_partition_info_entry(bsd, 1, 0, arg.simd)) ]
    /\ loc' = [ i |-> 0 ]
    /\ pc' = "pt_gen"
    /\ UNCHANGED <<prev, arg, dt, dtl, mode_out, heap>>

\* One body of the seed loop: the entries of seed i in the three tables.
PtGen ==
    /\ pc = "pt_gen"
    /\ loc.i < SeedLimit(1024)
    /\ bsd' = [ bsd EXCEPT !.partitions =
                    ArrSet(ArrSet(ArrSet(@,
                        par_tab2 + loc.i,
                        generate_one_partition_info_entry(bsd, 2, loc.i, arg.simd)),
                        par_tab3 + loc.i,
                        generate_one_partition_info_entry(bsd, 3, loc.i, arg.simd)),
                        par_tab4 + loc.i,
                        generate_one_partition_info_entry(bsd, 4, loc.i, arg.simd)) ]
    /\ loc' = [ loc EXCEPT !.i = @ + 1 ]
    /\ UNCHANGED <<prev, pc, arg, dt, dtl, mode_out, heap>>

\* The table that starts at base, and its cells written back
TableAt(b, base) ==
    [i \in 0 .. SeedLimit(PARTITION_COUNT) - 1 |-> b.partitions[base + i]]

PutTable(b, base, pt) ==
    [ b EXCEPT !.partitions =
        [k \in DOMAIN @ |-> IF k - base \in DOMAIN pt THEN pt[k - base] ELSE @[k]] ]

\* remove_duplicate_partitionings on the table that starts at base
Dedup(b, base) ==
    PutTable(b, base, remove_duplicate_partitionings(b.texel_count, TableAt(b, base)))

PtDedup2 ==
    /\ pc = "pt_gen"
    /\ ~(loc.i < SeedLimit(1024))
    /\ bsd' = Dedup(bsd, par_tab2)
    /\ pc' = "pt_dedup3"
    /\ UNCHANGED <<prev, arg, loc, dt, dtl, mode_out, heap>>

PtDedup3 ==
    /\ pc = "pt_dedup3"
    /\ bsd' = Dedup(bsd, par_tab3)
    /\ pc' = "pt_dedup4"
    /\ UNCHANGED <<prev, arg, loc, dt, dtl, mode_out, heap>>

PtDedup4 ==
    /\ pc = "pt_dedup4"
    /\ bsd' = Dedup(bsd, par_tab4)
    /\ pc' = "pt_done"
    /\ UNCHANGED <<prev, arg, loc, dt, dtl, mode_out, heap>>

NextPt ==
    \/ PtBegin
    \/ PtGen
    \/ PtDedup2
    \/ PtDedup3
    \/ PtDedup4

SpecPT == InitPt /\ [][NextPt]_vars

\* ---------------------------------------------------------------------------
\* Properties of the partition tables
\* ---------------------------------------------------------------------------
PtDone == pc = "pt_done"

PtRunning == pc \in {"pt_gen", "pt_dedup3", "pt_dedup4", "pt_done"}

TableSeeds == 0 .. SeedLimit(PARTITION_COUNT) - 1

\* The entry of a requested partition count and seed.
Entry(partition_count, seed) == bsd.partitions[ParTab(partition_count) + seed]

\* The canonical patterns of the table of a requested partition count,
\* as a function held by value.
Canon(partition_count) ==
    [i \in TableSeeds |->
        generate_canonical_partitioning(bsd.texel_count,
            Entry(partition_count, i).partition_of_texel)] @@ EmptyArr

\* C6: after init_partition_tables, in each of the tables of 2, 3 and 4
\* partitions, an entry whose canonical pattern already occurs at a lower
\* seed has partition_count 0, so no two entries with a positive
\* partition_count share a pattern, and the lowest seed of every pattern
\* keeps the partition_count its texel counts gave it at generation.
C6_PartitionDedup ==
    PtDone =>
        \A partition_count \in 2 .. 4 :
            LET canon == Canon(partition_count)
            IN  \A i \in TableSeeds :
                    LET e == Entry(partition_count, i)
                    IN  /\ (\E j \in 0 .. i - 1 : canon[j] = canon[i])
                            => e.partition_count = 0
                        /\ \A j \in TableSeeds :
                             (j # i /\ e.partition_count > 0
                                /\ Entry(partition_count, j).partition_count > 0)
                             => canon[j] # canon[i]
                        /\ (\A j \in 0 .. i - 1 : canon[j] # canon[i])
                            => e.partition_count =
                                 PartitionCountOf(e.partition_texel_count,
                                                  partition_count)

\* Finished tables in which an entry that generation gave a positive
\* partition_count was invalidated as a duplicate of a lower seed.
C6_Witness ==
    /\ PtDone
    /\ \E partition_count \in 2 .. 4 : \E i \in TableSeeds : \E j \in 0 .. i - 1 :
         /\ Canon(partition_count)[j] = Canon(partition_count)[i]
         /\ Entry(partition_count, i).partition_count = 0
         /\ Entry(partition_count, i).partition_texel_count[0] > 0
         /\ Entry(partition_count, j).partition_count > 0

Is4x4 == arg.x_texels = 4 /\ arg.y_texels = 4 /\ arg.z_texels = 1

HasEntry(partition_count, seed) ==
    PtRunning /\ ParTab(partition_count) + seed \in DOMAIN bsd.partitions

\* C9 as stated: on a 4x4 block the entry of 2 partitions and seed 0 has
\* exactly two non-empty partitions.
C9_Original ==
    (Is4x4 /\ HasEntry(2, 0)) =>
        /\ Entry(2, 0).partition_texel_count[0] > 0
        /\ Entry(2, 0).partition_texel_count[1] > 0
        /\ Entry(2, 0).partition_texel_count[2] = 0
        /\ Entry(2, 0).partition_texel_count[3] = 0

\* C9: on a 4x4 block the entry generated for 2 partitions and seed 0 has
\* exactly one non-empty partition: all 16 texels are in partition 0, the
\* texel counts are 16, 0, 0, 0 and the entry's partition_count is 1.
C9_SeedZeroOnePartition ==
    (Is4x4 /\ HasEntry(2, 0)) =>
        /\ \A t \in 0 .. 15 : Entry(2, 0).partition_of_texel[t] = 0
        /\ Entry(2, 0).partition_texel_count[0] = 16
        /\ \A p \in 1 .. 3 : Entry(2, 0).partition_texel_count[p] = 0
        /\ Entry(2, 0).partition_count = 1

\* The 4x4 tables once the entry of 2 partitions and seed 0 is generated,
\* next to a seed of the same table that does split the block in two.
C9_Witness ==
    /\ Is4x4
    /\ HasEntry(2, 0)
    /\ HasEntry(2, 1)
    /\ Entry(2, 1).partition_texel_count[0] > 0
    /\ Entry(2, 1).partition_texel_count[1] > 0

\* The requested partition count of a cell of bsd.partitions.
RequestedCount(k) ==
    CASE k >= par_tab1 -> 1
      [] k >= par_tab4 -> 4
      [] k >= par_tab3 -> 3
      [] OTHER -> 2

\* C10: in every generated entry, of any requested partition count pc in
\* 1..4 and any seed, on any block: every texel's partition is below pc,
\* the texel counts of the partitions pc and above are 0, and the four
\* texel counts sum to texel_count; with pc = 1 every texel is in
\* partition 0.
C10_PartitionRanges ==
    PtRunning =>
        \A k \in DOMAIN bsd.partitions :
            LET e == bsd.partitions[k]
                partition_count == RequestedCount(k)
            IN  /\ DOMAIN e.partition_of_texel = 0 .. bsd.texel_count - 1
                /\ \A t \in 0 .. bsd.texel_count - 1 :
                     e.partition_of_texel[t] \in 0 .. partition_count - 1
                /\ \A p \in partition_count .. 3 : e.partition_texel_count[p] = 0
                /\ e.partition_texel_count[0] + e.partition_texel_count[1]
                     + e.partition_texel_count[2] + e.partition_texel_count[3]
                     = bsd.texel_count
                /\ partition_count = 1 =>
                     \A t \in 0 .. bsd.texel_count - 1 : e.partition_of_texel[t] = 0

\* A 6x6 block with the single-partition entry and an entry of 4 requested
\* partitions that uses all four, the counts summing to 36.
C10_Witness ==
    /\ PtRunning
    /\ arg.x_texels = 6 /\ arg.y_texels = 6 /\ arg.z_texels = 1
    /\ par_tab1 \in DOMAIN bsd.partitions
    /\ \E i \in TableSeeds :
         /\ HasEntry(4, i)
         /\ \A p \in 0 .. 3 : Entry(4, i).partition_texel_count[p] > 0
         /\ Entry(4, i).partition_texel_count[0] + Entry(4, i).partition_texel_count[1]
              + Entry(4, i).partition_texel_count[2] + Entry(4, i).partition_texel_count[3]
              = 36

\* The entries generated so far.
Entries == IF PtRunning THEN DOMAIN bsd.partitions ELSE {}

\* C11: in every generated partition entry, bit i of coverage_bitmaps[p] is
\* set exactly when i < kmeans_texel_count and the i-th kmeans texel is
\* assigned to partition p; the four bitmaps are pairwise disjoint and their
\* union is the low kmeans_texel_count bits.
C11_CoverageBitmaps ==
    \A k \in Entries :
        /\ \A p \in 0 .. 3 : \A i \in 0 .. 63 :
             (i \in bsd.partitions[k].coverage_bitmaps[p])
               <=> (/\ i < bsd.kmeans_texel_count
                    /\ bsd.partitions[k].partition_of_texel[bsd.kmeans_texels[i]] = p)
        /\ \A p \in 0 .. 3 : \A q \in 0 .. 3 :
             p # q => bsd.partitions[k].coverage_bitmaps[p]
                        \cap bsd.partitions[k].coverage_bitmaps[q] = {}
        /\ UNION { bsd.partitions[k].coverage_bitmaps[p] : p \in 0 .. 3 }
             = 0 .. bsd.kmeans_texel_count - 1

\* An entry of a block of more than 64 texels, whose kmeans texels are a
\* drawn subset, with bits in all four bitmaps.
C11_Witness ==
    /\ PtRunning
    /\ bsd.texel_count > MAX_KMEANS_TEXELS
    /\ \E i \in 0 .. 63 : bsd.kmeans_texels[i] # i
    /\ \E k \in Entries : \A p \in 0 .. 3 :
         bsd.partitions[k].coverage_bitmaps[p] # {}

\* The length of the longest prefix of partitions 0, 1, 2, 3 that are all
\* non-empty.
PrefixLength(counts) ==
    Cardinality({ n \in 1 .. 4 : \A m \in 0 .. n - 1 : counts[m] > 0 })

\* C16: the partition_count generation stores in an entry is the length of
\* the longest non-empty prefix of partitions 0, 1, 2, 3 of the entry, and
\* is at most the requested partition count; deduplication later leaves it
\* or sets it to 0.
C16_PartitionCountPrefix ==
    \A partition_count \in 1 .. 4 : \A seed \in TableSeeds :
        HasEntry(partition_count, seed) =>
            /\ Entry(partition_count, seed).partition_count <= partition_count
            /\ Entry(partition_count, seed).partition_count
                 \in {0, PrefixLength(Entry(partition_count, seed).partition_texel_count)}
            /\ pc = "pt_gen" =>
                 Entry(partition_count, seed).partition_count
                   = PrefixLength(Entry(partition_count, seed).partition_texel_count)

\* A generated entry in which partitions 0, 1 and 3 have texels and
\* partition 2 has none: its partition_count is 2.
C16_Witness ==
    /\ pc = "pt_gen"
    /\ \E seed \in TableSeeds :
         /\ HasEntry(4, seed)
         /\ Entry(4, seed).partition_texel_count[0] > 0
         /\ Entry(4, seed).partition_texel_count[1] > 0
         /\ Entry(4, seed).partition_texel_count[2] = 0
         /\ Entry(4, seed).partition_texel_count[3] > 0
         /\ Entry(4, seed).partition_count = 2

----------------------------------------------------------------------------
(* Specification SpecInit: init_block_size_descriptor as a whole, then     *)
(* term_block_size_descriptor, or a second call of init with the same      *)
(* arguments on another descriptor                                         *)

\* The memory of a descriptor before init, holding whatever was there: g
\* tells one such content from another.  The cells of block_modes and of
\* partitions are left out: init writes whole records into the cells it
\* uses and reads no other, and the model keeps only the cells written.
DirtyBsd(g) ==
    [ xdim |-> -g, ydim |-> -g, zdim |-> -g, texel_count |-> -g,
      block_mode_count |-> -g,
      block_modes |-> EmptyArr,
      block_mode_packed_index |-> [k \in 0 .. MAX_WEIGHT_MODES - 1 |-> -1 - g],
      decimation_mode_count |-> -g,
      decimation_modes |->
          [k \in 0 .. MAX_DECIMATION_MODES - 1 |->
              [ maxprec_1plane |-> 20 + g, maxprec_2planes |-> 20 + g,
                percentile_hit |-> (g = 1), percentile_always |-> (g = 1) ]],
      decimation_tables |-> [k \in 0 .. MAX_DECIMATION_MODES - 1 |-> -g],
      kmeans_texel_count |-> -g,
      kmeans_texels |-> [k \in 0 .. MAX_KMEANS_TEXELS - 1 |-> -g],
      partitions |-> EmptyArr ]

\* The footprints init is called with here.
InitCallBlocks ==
    { <<4, 4, 1>>, <<MaxBlock2D, 5, 1>>, <<12, 12, 1>>,
      <<MaxBlock3D, 3, 2>>, <<6, 6, 6>> }

InitCallArgs ==
    { [ x_texels |-> a.x_texels, y_texels |-> a.y_texels, z_texels |-> a.z_texels,
        can_omit_modes |-> a.can_omit_modes, mode_cutoff |-> a.mode_cutoff,
        simd |-> 4 ] :
        a \in { c \in InitArgs :
                  /\ <<c.x_texels, c.y_texels, c.z_texels>> \in InitCallBlocks
                  /\ c.mode_cutoff = 0 } }

InitCall ==
    /\ pc = "init"
    /\ arg \in InitCallArgs
    /\ bsd = DirtyBsd(1)
    /\ loc = IdleLoc
    /\ dt = IdleDt
    /\ dtl = IdleDtl
    /\ heap = << >>
    /\ mode_out = None
    /\ prev = {}

\* init_block_size_descriptor: the call of init_partition_tables(bsd)
InitPartitions ==
    /\ pc = "constructed"
    /\ pc' = "pt_init"
    /\ UNCHANGED <<prev, arg, bsd, loc, dt, dtl, mode_out, heap>>

\* aligned_free of an address: the table is released once more.
aligned_free_Leak(h, p) == h

aligned_free(h, p) ==
    IF p = NullPtr THEN h ELSE [ h EXCEPT ![p].frees = @ + 1 ]

\* term_block_size_descriptor up to its loop
TermBegin ==
    /\ pc = "pt_done"
    /\ prev = {}
    /\ loc' = [ i |-> 0 ]
    /\ pc' = "term"
    /\ UNCHANGED <<prev, arg, bsd, dt, dtl, mode_out, heap>>

\* One iteration of the loop of term_block_size_descriptor
TermFree ==
    /\ pc = "term"
    /\ loc.i < bsd.decimation_mode_count
    /\ heap' = aligned_free(heap, bsd.decimation_tables[loc.i])
    /\ loc' = [ loc EXCEPT !.i = @ + 1 ]
    /\ UNCHANGED <<prev, pc, arg, bsd, dt, dtl, mode_out>>

TermEnd ==
    /\ pc = "term"
    /\ ~(loc.i < bsd.decimation_mode_count)
    /\ pc' = "terminated"
    /\ UNCHANGED <<prev, arg, bsd, loc, dt, dtl, mode_out, heap>>

\* A second call of init_block_size_descriptor with the same arguments, on
\* another descriptor; the first one is kept.
InitAgain ==
    /\ pc = "pt_done"
    /\ prev = {}
    /\ prev' = {bsd}
    /\ bsd' = DirtyBsd(2)
    /\ loc' = IdleLoc
    /\ pc' = "init"
    /\ UNCHANGED <<arg, dt, dtl, mode_out, heap>>

NextInit ==
    \/ NextBsd
    \/ InitPartitions
    \/ NextPt
    \/ TermBegin
    \/ TermFree
    \/ TermEnd
    \/ InitAgain

SpecInit == InitCall /\ [][NextInit]_vars

\* ---------------------------------------------------------------------------
\* Properties of init and term
\* ---------------------------------------------------------------------------
\* init_partition_tables is running or has returned.
InPartitionTables == pc \in {"pt_init", "pt_gen", "pt_dedup3", "pt_dedup4", "pt_done"}

\* The partition entries have been generated and deduplicated.
PartitionsDone == pc \in {"pt_done", "term", "terminated"}

\* A step of init that writes kmeans_texels or kmeans_texel_count.
KmeansWritten ==
    /\ pc' # "init"
    /\ \/ bsd'.kmeans_texels # bsd.kmeans_texels
       \/ bsd'.kmeans_texel_count # bsd.kmeans_texel_count

\* The kmeans texels are a choice of texels of the block.
KmeansInPlace ==
    /\ bsd.kmeans_texel_count =
         (IF bsd.texel_count < MAX_KMEANS_TEXELS THEN bsd.texel_count
          ELSE MAX_KMEANS_TEXELS)
    /\ \A i \in 0 .. bsd.kmeans_texel_count - 1 :
         bsd.kmeans_texels[i] \in 0 .. bsd.texel_count - 1

\* C12 as stated: within init, kmeans_texels / kmeans_texel_count are
\* written only after the partition entries have been generated and
\* deduplicated.
C12_Original == [][KmeansWritten => PartitionsDone]_vars

\* C12 amended: within init, the kmeans texels are chosen by the last step
\* of construct_block_size_descriptor_2d/3d, before init_partition_tables is
\* called; they are in place while the partition entries are generated and
\* deduplicated, and no step of init_partition_tables writes them.
C12_KmeansBeforePartitions ==
    /\ [](InPartitionTables => KmeansInPlace)
    /\ [][KmeansWritten => (pc \in {"modes_2d", "modes_3d"} /\ pc' = "constructed")]_vars

\* Partition entries are being generated for a block of more than 64
\* texels, and an entry's coverage bitmaps hold bits of the chosen texels.
C12_Witness ==
    /\ pc = "pt_gen"
    /\ heap # << >>
    /\ bsd.texel_count > MAX_KMEANS_TEXELS
    /\ bsd.kmeans_texel_count = MAX_KMEANS_TEXELS
    /\ \E k \in DOMAIN bsd.partitions :
         /\ bsd.partitions[k].coverage_bitmaps[0] # {}
         /\ bsd.partitions[k].coverage_bitmaps[1] # {}

\* The tables a descriptor points to.
TablesOf(b) == { b.decimation_tables[k] : k \in 0 .. b.decimation_mode_count - 1 }

\* The tables allocated by the call of init that filled bsd.
InitTables == (1 .. Len(heap)) \ UNION { TablesOf(b) : b \in prev }

\* C13: when init has returned, decimation_tables[0 .. decimation_mode_count)
\* hold exactly the tables this call allocated, each in exactly one slot, and
\* the slots from decimation_mode_count up to MAX_DECIMATION_MODES are null;
\* no table is freed more than once, and when term has returned every table
\* of the call has been freed exactly once.
C13_TablesOwnedAndFreed ==
    /\ pc \in {"pt_done", "term", "terminated"} =>
         /\ \A k \in 0 .. bsd.decimation_mode_count - 1 :
              bsd.decimation_tables[k] \in InitTables
         /\ \A p \in InitTables :
              Cardinality({ k \in 0 .. MAX_DECIMATION_MODES - 1 :
                              bsd.decimation_tables[k] = p }) = 1
         /\ \A k \in bsd.decimation_mode_count .. MAX_DECIMATION_MODES - 1 :
              bsd.decimation_tables[k] = NullPtr
    /\ pc = "pt_done" => \A p \in InitTables : heap[p].frees = 0
    /\ pc = "term" =>
         \A k \in 0 .. bsd.decimation_mode_count - 1 :
            heap[bsd.decimation_tables[k]].frees = (IF k < loc.i THEN 1 ELSE 0)
    /\ pc = "terminated" => \A p \in InitTables : heap[p].frees = 1

\* term has returned on the descriptor of a 3D block that had several
\* tables.
C13_Witness ==
    /\ pc = "terminated"
    /\ arg.z_texels > 1
    /\ bsd.decimation_mode_count > 2
    /\ Len(heap) = bsd.decimation_mode_count

----------------------------------------------------------------------------
(* Specification SpecKmeans: assign_kmeans_texels, one draw at a time,     *)
(* over several streams of values that astc::rand may return               *)

\* The streams: multiplier and increment of a generator modulo 65537.  The
\* first is the stand-in used by rand; the others count, stride, repeat a
\* short cycle, or return one value for ever.
RandStreams == { <<75, 74>>, <<1, 1>>, <<1, 3>>, <<1, 21846>>, <<4, 0>>, <<1, 0>> }

\* astc::rand(rng_state) of a stream
RandOf(stream, rng_state) == (rng_state * stream[1] + stream[2]) % 65537

\* The texel counts of the footprints.
KmeansTexelCounts == { b[1] * b[2] * b[3] : b \in Blocks2D \cup Blocks3D }

InitKmeans ==
    /\ pc = "kmeans"
    /\ arg \in [ texel_count : KmeansTexelCounts, stream : RandStreams ]
    /\ bsd = [ DirtyBsd(1) EXCEPT !.texel_count = arg.texel_count ]
    /\ loc = IdleLoc
    /\ dt = IdleDt
    /\ dtl = IdleDtl
    /\ heap = IdleHeap
    /\ mode_out = None
    /\ prev = {}

\* The branch of a small block: all texels, in order.
KmeansAll ==
    /\ pc = "kmeans"
    /\ bsd.texel_count <= MAX_KMEANS_TEXELS
    /\ bsd' = [ bsd EXCEPT
                  !.kmeans_texels =
                      [i \in DOMAIN @ |-> IF i < bsd.texel_count THEN i ELSE @[i]],
                  !.kmeans_texel_count = bsd.texel_count ]
    /\ pc' = "kmeans_done"
    /\ UNCHANGED <<prev, arg, loc, dt, dtl, mode_out, heap>>

\* rand_init, and the loop that clears seen[]
KmeansSeed ==
    /\ pc = "kmeans"
    /\ ~(bsd.texel_count <= MAX_KMEANS_TEXELS)
    /\ loc' = [ rng_state |-> rand_init,
                seen |-> [i \in 0 .. bsd.texel_count - 1 |-> FALSE],
                arr_elements_set |-> 0 ]
    /\ pc' = "kmeans_draw"
    /\ UNCHANGED <<prev, arg, bsd, dt, dtl, mode_out, heap>>

\* Every drawn texel is kept.
Unseen_Always(seen, texel) == TRUE

\* if (!seen[texel])
Unseen(seen, texel) == ~seen[texel]

\* One iteration of the while loop
KmeansDraw ==
    /\ pc = "kmeans_draw"
    /\ loc.arr_elements_set < MAX_KMEANS_TEXELS
    /\ LET next  == RandOf(arg.stream, loc.rng_state)
           texel == next % bsd.texel_count
       IN  IF Unseen(loc.seen, texel)
           THEN /\ bsd' = [ bsd EXCEPT !.kmeans_texels[loc.arr_elements_set] = texel ]
                /\ loc' = [ rng_state |-> next,
                            seen |-> [ loc.seen EXCEPT ![texel] = TRUE ],
                            arr_elements_set |-> loc.arr_elements_set + 1 ]
           ELSE /\ bsd' = bsd
                /\ loc' = [ loc EXCEPT !.rng_state = next ]
    /\ UNCHANGED <<prev, pc, arg, dt, dtl, mode_out, heap>>

\* bsd.kmeans_texel_count = MAX_KMEANS_TEXELS;
KmeansReturn ==
    /\ pc = "kmeans_draw"
    /\ ~(loc.arr_elements_set < MAX_KMEANS_TEXELS)
    /\ bsd' = [ bsd EXCEPT !.kmeans_texel_count = MAX_KMEANS_TEXELS ]
    /\ pc' = "kmeans_done"
    /\ UNCHANGED <<prev, arg, loc, dt, dtl, mode_out, heap>>

NextKmeans ==
    \/ KmeansAll
    \/ KmeansSeed
    \/ KmeansDraw
    \/ KmeansReturn

SpecKmeans == InitKmeans /\ [][NextKmeans]_vars

\* C14: when assign_kmeans_texels returns, kmeans_texel_count is
\* min(texel_count, 64); on a block of at most 64 texels kmeans_texels[i] = i
\* for every texel i; on a larger block the 64 chosen indices are texels of
\* the block and pairwise distinct, whatever stream of values was drawn.  On
\* the stand-in stream the result is the one assign_kmeans_texels computes.
C14_KmeansTexels ==
    pc = "kmeans_done" =>
        /\ bsd.kmeans_texel_count =
             (IF bsd.texel_count < MAX_KMEANS_TEXELS THEN bsd.texel_count
              ELSE MAX_KMEANS_TEXELS)
        /\ bsd.texel_count <= MAX_KMEANS_TEXELS =>
             \A i \in 0 .. bsd.texel_count - 1 : bsd.kmeans_texels[i] = i
        /\ bsd.texel_count > MAX_KMEANS_TEXELS =>
             /\ \A i \in 0 .. MAX_KMEANS_TEXELS - 1 :
                  bsd.kmeans_texels[i] \in 0 .. bsd.texel_count - 1
             /\ \A i \in 0 .. MAX_KMEANS_TEXELS - 1 :
                  \A j \in 0 .. MAX_KMEANS_TEXELS - 1 :
                     i # j => bsd.kmeans_texels[i] # bsd.kmeans_texels[j]
        /\ arg.stream = <<75, 74>> =>
             \A i \in 0 .. bsd.kmeans_texel_count - 1 :
                bsd.kmeans_texels[i] = assign_kmeans_texels(bsd).kmeans_texels[i]

\* The loop has returned on a large block after more than 64 draws: some
\* draws were repeats and were rejected.  The last values of a returned
\* loop are not in ascending order.
C14_Witness ==
    /\ pc = "kmeans_done"
    /\ bsd.texel_count > MAX_KMEANS_TEXELS
    /\ \E i \in 0 .. MAX_KMEANS_TEXELS - 1 : loc.seen[i] = FALSE
    /\ \E i \in 1 .. MAX_KMEANS_TEXELS - 1 :
         bsd.kmeans_texels[i] < bsd.kmeans_texels[i - 1]

\* The pointer-free content of slot k of decimation_tables.
TableContent(b, k) ==
    IF b.decimation_tables[k] \in 1 .. Len(heap)
    THEN {heap[b.decimation_tables[k]].table}
    ELSE {b.decimation_tables[k]}

\* Everything init writes in a descriptor, with each pointer replaced by the
\* table it points to.
Written(b) ==
    [ xdim |-> b.xdim, ydim |-> b.ydim, zdim |-> b.zdim,
      texel_count |-> b.texel_count,
      block_mode_count |-> b.block_mode_count,
      block_modes |-> [k \in 0 .. b.block_mode_count - 1 |-> b.block_modes[k]],
      block_mode_packed_index |-> b.block_mode_packed_index,
      decimation_mode_count |-> b.decimation_mode_count,
      decimation_modes |-> b.decimation_modes,
      decimation_tables |->
          [k \in 0 .. MAX_DECIMATION_MODES - 1 |-> TableContent(b, k)],
      kmeans_texel_count |-> b.kmeans_texel_count,
      kmeans_texels |-> [k \in 0 .. b.kmeans_texel_count - 1 |-> b.kmeans_texels[k]],
      partitions |-> b.partitions ]

----------------------------------------------------------------------------
(* Specification SpecSimplex: the simplex switch of                        *)
(* initialize_decimation_table_3d on every triple of fractions             *)

InitSimplex ==
    /\ pc = "simplex"
    /\ arg \in [ fs : 0 .. 15, ft : 0 .. 15, fp : 0 .. 15,
                 x_weights : 2 .. 3, y_weights : {2} ]
    /\ bsd = IdleBsd
    /\ loc = IdleLoc
    /\ dt = IdleDt
    /\ dtl = IdleDtl
    /\ heap = IdleHeap
    /\ mode_out = None
    /\ prev = {}

\* cas, and s1, s2, w0 .. w3 as the switch leaves them
SimplexSwitch ==
    /\ pc = "simplex"
    /\ mode_out' =
         [ cas |-> SimplexCas(arg.fs, arg.ft, arg.fp),
           out |-> SimplexCase(SimplexCas(arg.fs, arg.ft, arg.fp),
                               arg.x_weights, arg.x_weights * arg.y_weights,
                               arg.fs, arg.ft, arg.fp) ]
    /\ pc' = "simplex_done"
    /\ UNCHANGED <<prev, arg, bsd, loc, dt, dtl, heap>>

NextSimplex == SimplexSwitch

SpecSimplex == InitSimplex /\ [][NextSimplex]_vars

\* C18: for all fractions fs, ft, fp in 0..15 the case index is never 1 or
\* 6, so the default branch of the switch is not taken, and the weights
\* w0..w3 the switch leaves are all >= 0, w0 >= 1, and sum to 16.
C18_SimplexWeights ==
    pc = "simplex_done" =>
        /\ mode_out.cas \in {0, 2, 3, 4, 5, 7}
        /\ mode_out.out[3] >= 1
        /\ \A n \in 4 .. 6 : mode_out.out[n] >= 0
        /\ mode_out.out[3] + mode_out.out[4] + mode_out.out[5] + mode_out.out[6]
             = TEXEL_WEIGHT_SUM

\* The switch has run in case 3 with ft above fs: case 7's weights would
\* be negative here.
C18_Witness ==
    /\ pc = "simplex_done"
    /\ mode_out.cas = 3
    /\ arg.ft > arg.fs
    /\ mode_out.out[4] = arg.ft - arg.fs

----------------------------------------------------------------------------
(* Specification SpecCanon: generate_canonical_partitioning and            *)
(* compare_canonical_partitionings on pairs of partition assignments       *)

\* The texel counts of the pairs: a block of 4 texels, which can use all
\* four partitions, and one of 34 texels, which fills bit_pattern[0] and
\* two fields of bit_pattern[1].
CanonTexelCounts == {4, 34}

\* The first texel of the larger block whose partition is chosen freely;
\* the texels before it share one partition.
CanonFree == 32

\* The partitions of texel 0 in the block of 4 texels.
CanonFirst == {0, 3}

CanonAssignments(texel_count) ==
    IF texel_count <= CanonFree
    THEN { a \in [0 .. texel_count - 1 -> 0 .. 3] : a[0] \in CanonFirst }
    ELSE { [i \in 0 .. texel_count - 1 |-> IF i < CanonFree THEN g ELSE v[i]] :
             g \in 0 .. 3, v \in [CanonFree .. texel_count - 1 -> 0 .. 3] }

CanonArgs ==
    UNION { [ texel_count : {n},
              part1 : CanonAssignments(n),
              part2 : CanonAssignments(n) ] : n \in CanonTexelCounts }

InitCanon ==
    /\ pc = "canon"
    /\ arg \in CanonArgs
    /\ bsd = IdleBsd
    /\ loc = IdleLoc
    /\ dt = IdleDt
    /\ dtl = IdleDtl
    /\ heap = IdleHeap
    /\ mode_out = None
    /\ prev = {}

\* The first loop of remove_duplicate_partitionings, for two entries
CanonGenerate ==
    /\ pc = "canon"
    /\ mode_out' =
         [ bit_patterns |->
             <<generate_canonical_partitioning(arg.texel_count, arg.part1),
               generate_canonical_partitioning(arg.texel_count, arg.part2)>> ]
    /\ pc' = "canon_compare"
    /\ UNCHANGED <<prev, arg, bsd, loc, dt, dtl, heap>>

\* The comparison of the two patterns
CanonCompare ==
    /\ pc = "canon_compare"
    /\ mode_out' =
         [ bit_patterns |-> mode_out.bit_patterns,
           same |-> compare_canonical_partitionings(mode_out.bit_patterns[1],
                                                    mode_out.bit_patterns[2]) ]
    /\ pc' = "canon_done"
    /\ UNCHANGED <<prev, arg, bsd, loc, dt, dtl, heap>>

NextCanon == CanonGenerate \/ CanonCompare

SpecCanon == InitCanon /\ [][NextCanon]_vars

\* Two assignments put the same texels together.
SameGrouping(texel_count, part1, part2) ==
    \A i, j \in 0 .. texel_count - 1 :
        (part1[i] = part1[j]) <=> (part2[i] = part2[j])

\* The two-bit field of texel i in a 7-word pattern
FieldOf(bit_pattern, i) == bit_pattern[i \div 32][i % 32]

\* Texel 0 has id 0; an id not seen before texel i is one more than the
\* largest id before it; the ids group the texels as the assignment does;
\* the fields past the last texel are 0.
IsCanonical(texel_count, part, bit_pattern) ==
    /\ FieldOf(bit_pattern, 0) = 0
    /\ \A i \in 1 .. texel_count - 1 :
          \/ \E j \in 0 .. i - 1 : FieldOf(bit_pattern, j) = FieldOf(bit_pattern, i)
          \/ /\ \E j \in 0 .. i - 1 : FieldOf(bit_pattern, j) = FieldOf(bit_pattern, i) - 1
             /\ \A j \in 0 .. i - 1 : FieldOf(bit_pattern, j) < FieldOf(bit_pattern, i)
    /\ \A i, j \in 0 .. texel_count - 1 :
          (FieldOf(bit_pattern, i) = FieldOf(bit_pattern, j)) <=> (part[i] = part[j])
    /\ \A i \in texel_count .. 7 * 32 - 1 : FieldOf(bit_pattern, i) = 0

\* C19: two partition assignments over the same texel_count have equal
\* 7-word canonical patterns exactly when they induce the same grouping of
\* the texels; in each canonical pattern texel 0 has id 0 and each new id
\* is one more than the largest id seen earlier in scan order.
C19_CanonicalPattern ==
    /\ pc \in {"canon_compare", "canon_done"} =>
          /\ IsCanonical(arg.texel_count, arg.part1, mode_out.bit_patterns[1])
          /\ IsCanonical(arg.texel_count, arg.part2, mode_out.bit_patterns[2])
    /\ pc = "canon_done" =>
          (mode_out.same <=> SameGrouping(arg.texel_count, arg.part1, arg.part2))

\* Two different assignments of 34 texels with the same grouping, a
\* partition of which first appears in bit_pattern[1], compared equal.
C19_Witness ==
    /\ pc = "canon_done"
    /\ arg.texel_count = 34
    /\ arg.part1 # arg.part2
    /\ \A i \in 0 .. 31 : arg.part1[i] # arg.part1[32]
    /\ FieldOf(mode_out.bit_patterns[1], 33) = 2
    /\ mode_out.same

----------------------------------------------------------------------------
(* Specification SpecReach: the texel loops of                             *)
(* initialize_decimation_table_2d/3d for every supported block size and    *)
(* every weight grid init builds, keeping the per-weight counters only     *)

\* 2D blocks with dimensions 4..12 and the grids of the valid 2D modes that
\* fit them; 3D blocks with dimensions 2..6 and the grids of the loops of
\* construct_block_size_descriptor_3d with at most MAX_WEIGHTS_PER_BLOCK
\* weights.
ReachArgs ==
    { [ x_texels |-> c[1], y_texels |-> c[2], z_texels |-> 1,
        x_weights |-> c[3][1], y_weights |-> c[3][2], z_weights |-> 1 ] :
        c \in { bg \in (4 .. 12) \X (4 .. 12) \X Grids2D :
                  bg[3][1] <= bg[1] /\ bg[3][2] <= bg[2] } }
    \cup
    { [ x_texels |-> c[1][1], y_texels |-> c[1][2], z_texels |-> c[1][3],
        x_weights |-> c[2][1], y_weights |-> c[2][2], z_weights |-> c[2][3] ] :
        c \in { bg \in ((2 .. 6) \X (2 .. 6) \X (2 .. 6))
                         \X ((2 .. 6) \X (2 .. 6) \X (2 .. 6)) :
                  /\ bg[2][1] <= bg[1][1]
                  /\ bg[2][2] <= bg[1][2]
                  /\ bg[2][3] <= bg[1][3]
                  /\ bg[2][1] * bg[2][2] * bg[2][3] <= MAX_WEIGHTS_PER_BLOCK } }

InitReach ==
    /\ pc = "reach"
    /\ arg \in ReachArgs
    /\ bsd = IdleBsd
    /\ loc = IdleLoc
    /\ dt = IdleDt
    /\ dtl = IdleDtl
    /\ heap = IdleHeap
    /\ mode_out = None
    /\ prev = {}

\* qweight[4] and weight[4] of the texel the loops reach as number texel
CornersOf(a, texel) ==
    IF a.z_texels = 1
    THEN Bilinear(a.x_texels, a.y_texels, a.x_weights, a.y_weights,
                  texel % a.x_texels, texel \div a.x_texels)
    ELSE Simplex(a.x_texels, a.y_texels, a.z_texels,
                 a.x_weights, a.y_weights, a.z_weights,
                 texel % a.x_texels,
                 (texel \div a.x_texels) % a.y_texels,
                 texel \div (a.x_texels * a.y_texels))

\* for (i = 0; i < 4; i++) if (weight[i] != 0) texel_count_of_weight[qweight[i]]++;
\* for the corners c of one texel; an index outside the counters is
\* recorded in ub
RECURSIVE CountSlots(_, _, _)
CountSlots(l, c, i) ==
    IF i >= 4 THEN [ l EXCEPT !.texel = @ + 1 ]
    ELSE IF c.weight[i] = 0 THEN CountSlots(l, c, i + 1)
    ELSE IF c.qweight[i] \notin DOMAIN l.texel_count_of_weight
         THEN CountSlots([ l EXCEPT !.ub = TRUE ], c, i + 1)
    ELSE CountSlots([ l EXCEPT !.texel_count_of_weight[c.qweight[i]] = (@ + 1) % 256 ],
                    c, i + 1)

\* The nested texel loops
RECURSIVE CountTexels(_, _)
CountTexels(a, l) ==
    IF ~(l.texel < a.x_texels * a.y_texels * a.z_texels) THEN l
    ELSE CountTexels(a, CountSlots(l, CornersOf(a, l.texel), 0))

\* The counter loops and the texel loops of initialize_decimation_table_2d
ReachCount2D ==
    /\ pc = "reach"
    /\ arg.z_texels = 1
    /\ dtl' = CountTexels(arg,
                 [ texel |-> 0, ub |-> FALSE,
                   texel_count_of_weight |-> [w \in 0 .. WeightsPerBlock - 1 |-> 0] ])
    /\ pc' = "reach_done"
    /\ UNCHANGED <<prev, arg, bsd, loc, dt, mode_out, heap>>

\* The counter loops and the texel loops of initialize_decimation_table_3d
ReachCount3D ==
    /\ pc = "reach"
    /\ arg.z_texels > 1
    /\ dtl' = CountTexels(arg,
                 [ texel |-> 0, ub |-> FALSE,
                   texel_count_of_weight |-> [w \in 0 .. WeightsPerBlock - 1 |-> 0] ])
    /\ pc' = "reach_done"
    /\ UNCHANGED <<prev, arg, bsd, loc, dt, mode_out, heap>>

NextReach == ReachCount2D \/ ReachCount3D

SpecReach == InitReach /\ [][NextReach]_vars

\* C22: for every 2D block with dimensions 4..12 and every 3D block with
\* dimensions 2..6, and every weight grid init builds for it, every grid
\* corner index recorded with a non-zero blend weight lies in
\* [0, weight_count), and every weight of the grid is referenced by at
\* least one texel, so that texel_count_of_weight[i] - 1, the index of the
\* tail-padding reads, is never -1.
C22_CornersInRange ==
    pc = "reach_done" =>
        /\ dtl.texel = TexelsPerBlock
        /\ ~dtl.ub
        /\ \A w \in 0 .. WeightsPerBlock - 1 : dtl.texel_count_of_weight[w] >= 1

\* The loops have run for a 12x12 block with a 5x12 grid: the last texel of
\* a row sits on the last grid column, its right-hand corners are past the
\* row and carry weight 0.
C22_Witness ==
    /\ pc = "reach_done"
    /\ arg.x_texels = 12 /\ arg.y_texels = 12
    /\ arg.x_weights = 5 /\ arg.y_weights = 12
    /\ CornersOf(arg, 143).qweight[3] >= WeightsPerBlock
    /\ CornersOf(arg, 143).weight[3] = 0
    /\ dtl.texel = 144

=============================================================================
